---- MODULE Spec2Model ----
(***************************************************************************)
(* Market-data streamer of crypalgos/api (app/modules/data_service).       *)
(*                                                                         *)
(* StreamerManager owns one ZMQBroker and a list of exchange clients.      *)
(* Every client runs BaseExchangeClient.connect() as an asyncio task.      *)
(* All coroutines share one event loop: a coroutine runs until it awaits   *)
(* something that is not ready, and woken coroutines run in the order in   *)
(* which they were woken (the loop's ready queue).                         *)
(*                                                                         *)
(* Coroutine 0 is the caller of the lifecycle methods: the FastAPI         *)
(* startup/shutdown handlers of manager.py in Spec, a direct user of one   *)
(* connector's connect()/stop() in ClientSpec, a direct user of the        *)
(* broker's start()/stop() in BrokerSpec.  Coroutine i >= 1 is the task of *)
(* clients[i].  ReaderSpec is the message loop alone, on connections that  *)
(* are open, fed with every short sequence of messages.                    *)
(***************************************************************************)
EXTENDS Integers, Sequences, FiniteSets, TLC

\* Number of registered exchange clients (len(self.clients)).
NumClients == 2

\* Successful binds and stop() calls a direct user of the broker makes.
MaxBinds == 2
MaxStops == 2

\* Messages the exchanges deliver in all on the connections that are read
\* message by message.
MaxMessages == 2

Clients == 1..NumClients

\* self.clients, by position.
clients == [k \in 1..NumClients |-> k]

\* exchange_name of the i-th client; clients[1] is the Delta client.
ExchangeNames == <<"delta", "okx", "binance", "bybit", "kraken">>

exchange_name(i) == ExchangeNames[i]

\* Text frames a websocket can deliver, by what json.loads and
\* normalize_message make of them: an object of one of the three types, an
\* object of any other type, a trade without price, JSON that is not an
\* object (an array, a string, a number), and text that is not JSON.
Frames == {"all_trades", "candlestick_1m", "v2/ticker", "heartbeat",
           "all_trades_no_price", "not_object", "not_json"}

VARIABLES
    addr_in_use,        \* the broker address is held by another socket
    broker_is_running,  \* ZMQBroker.is_running
    socket_bound,       \* socket.bind() has succeeded
    socket_closed,      \* socket.close() and context.term() have run
    sent,               \* topics of the messages transmitted by the last step
    published,          \* topics passed to broker.publish by the last step
    wire,               \* frames put on the PUB socket by the last step
    binds,              \* socket.bind() calls that have succeeded
    stops,              \* calls of ZMQBroker.stop()
    broker_raised,      \* methods of the broker that have raised
    inbox,              \* messages received on a connection and not yet read
    received,           \* every message received on the connection so far
    log,                \* the publish calls a connector has made, in order
    message,            \* a parsed Delta message given to normalize_message
    normalized,         \* what normalize_message made of it
    mpc,                \* position of coroutine 0
    mIdx,               \* index of the loop coroutine 0 is in
    tasks,              \* StreamerManager.tasks (client index per task)
    start_raised,       \* StreamerManager.start() raised to its caller
    is_running,         \* BaseExchangeClient.is_running, per client
    ws,                 \* BaseExchangeClient.ws, per client
    pc,                 \* position of the client's connect() task
    wake,               \* result the task has been woken with, not yet run
    must_cancel,        \* Task.cancel() requested and not yet delivered
    ready,              \* the event loop's ready queue
    sub_sent,           \* subscription requests sent on the current connection
    stop_at,            \* task position when stop() was called on the client
    stop_returned,      \* stop() on the client has returned
    cancel_req,         \* Task.cancel() has been called on the client's task
    users,              \* the users table, by primary key
    sessions,           \* the sessions table, in the order of created_at
    created,            \* sessions created so far
    request,            \* the last call of the user service and its outcome
    in_flight           \* the _create_user_session calls that are under way

vars == <<addr_in_use, broker_is_running, socket_bound, socket_closed, sent,
          published, wire, binds, stops, broker_raised, inbox, received,
          log, message, normalized, mpc, mIdx, tasks, start_raised, is_running, ws, pc, wake,
          must_cancel, ready, sub_sent, stop_at, stop_returned,
          cancel_req, users, sessions, created, request, in_flight>>

brokerVars == <<addr_in_use, broker_is_running, socket_bound, socket_closed>>
mgrVars == <<mpc, mIdx, tasks, start_raised>>
histVars == <<stop_at, stop_returned, cancel_req>>
callVars == <<binds, stops, broker_raised>>
pipeVars == <<inbox, received, log>>
normVars == <<message, normalized>>
userVars == <<users, sessions, created, request>>
otherVars == <<normVars, userVars, in_flight>>
dataVars == <<brokerVars, sent, published, wire, callVars, pipeVars,
              normVars, mgrVars, is_running, ws, pc, wake, must_cancel,
              ready, sub_sent, histVars>>
streamVars == <<dataVars, in_flight>>

\* Positions in which a task has ended.
Ended == {"done", "cancelled", "failed"}

\* Positions inside __aexit__ of the connection, by what left the block:
\* the end of the iteration or an exception.
Closing == {"closing_normal", "closing_closed", "closing_json",
            "closing_type", "closing_zmq", "closing_cancel"}

\* Positions in which a task is suspended in an await.
Suspended == {"unstarted", "connecting", "reading", "sleeping"} \cup Closing

\* Positions of coroutine 0 in which it holds the event loop.
MgrActive ==
    mpc \in {"start_bind", "start_spawn", "stop_clients", "stop_cancel",
             "stop_broker"}


\* Coroutine c is at the head of the ready queue and the loop is free.
Scheduled(c) == ready # <<>> /\ Head(ready) = c /\ ~MgrActive

(***************************************************************************)
(* DeltaExchangeClient.normalize_message and the publish loop of           *)
(* BaseExchangeClient.connect, as far as the control flow depends on them. *)
(***************************************************************************)

\* json.loads(message): raises on a frame that is not JSON.
json_loads_raises(frame) == frame = "not_json"

\* Variant of normalize_message: a candle is returned as a ticker.
normalize_message_asTicker(frame) ==
    CASE frame = "all_trades" -> [shape |-> "dict", suffix |-> ""]
      [] frame = "all_trades_no_price" -> [shape |-> "raise", suffix |-> ""]
      [] frame = "not_object" -> [shape |-> "raise", suffix |-> ""]
      [] frame = "candlestick_1m" -> [shape |-> "tuple", suffix |-> "ticker"]
      [] frame = "v2/ticker" -> [shape |-> "tuple", suffix |-> "ticker"]
      [] OTHER -> [shape |-> "none", suffix |-> ""]

\* Shape of what normalize_message returns for a parsed frame: a bare dict
\* for all_trades, a (suffix, dict) tuple for candles and tickers, None for
\* any other type; float(None) raises when a trade carries no price, and
\* message.get raises when json.loads returned something that is not a dict.
normalize_message(frame) ==
    CASE frame = "all_trades" -> [shape |-> "dict", suffix |-> ""]
      [] frame = "all_trades_no_price" -> [shape |-> "raise", suffix |-> ""]
      [] frame = "not_object" -> [shape |-> "raise", suffix |-> ""]
      [] frame = "candlestick_1m" -> [shape |-> "tuple", suffix |-> "ohlcv"]
      [] frame = "v2/ticker" -> [shape |-> "tuple", suffix |-> "ticker"]
      [] OTHER -> [shape |-> "none", suffix |-> ""]

\* Variant of trade_side: the maker's side instead of the aggressor's.
trade_side_swapped(buyer_role) ==
    IF buyer_role = "maker" THEN "buy" ELSE "sell"

\* "side": "sell" if message.get("buyer_role") == "maker" else "buy"
trade_side(buyer_role) == IF buyer_role = "maker" THEN "sell" ELSE "buy"

\* Variant of UpdatesOf: a bare dict is not given the "trades" suffix.
UpdatesOf_bare(result) ==
    IF result.shape = "none" THEN <<>> ELSE <<result.suffix>>

\* The list of topic suffixes the connect loop publishes for one result.
UpdatesOf(result) ==
    IF result.shape = "none" THEN <<>>
    ELSE IF result.shape = "dict" THEN <<"trades">>
    ELSE <<result.suffix>>

\* Variant of Topic: the suffix alone.
Topic_bare(suffix, i) == suffix

\* f"{topic_suffix}.{self.exchange_name}"
Topic(suffix, i) == suffix \o "." \o exchange_name(i)

\* Variant of Transmitted: the running flag is not looked at.
Transmitted_unguarded(running, topic, send_ok) ==
    IF send_ok THEN <<topic>> ELSE <<>>

\* ZMQBroker.publish: nothing unless the broker is running; a send that
\* fails is logged and dropped.
Transmitted(running, topic, send_ok) ==
    IF running /\ send_ok THEN <<topic>> ELSE <<>>

\* What one message puts on the wire, in order: one publish per update;
\* oks[k] tells whether the k-th send_multipart succeeds.
RECURSIVE PublishFrom(_, _, _, _, _)
PublishFrom(k, running, i, ups, oks) ==
    IF k > Len(ups) THEN <<>>
    ELSE Transmitted(running, Topic(ups[k], i), oks[k])
         \o PublishFrom(k + 1, running, i, ups, oks)

PublishAll(running, i, ups, oks) == PublishFrom(1, running, i, ups, oks)

\* The topics of the publish calls the loop makes for one list of updates.
PublishCalls(i, ups) == [k \in 1..Len(ups) |-> Topic(ups[k], i)]

\* Variant of PublishRaises: a failed send propagates to the caller.
PublishRaises_propagate(running, send_ok) == running /\ ~send_ok

\* ZMQBroker.publish: the send is inside `try: ... except Exception:` which
\* logs and returns, and nothing outside it can raise.
PublishRaises(running, send_ok) == FALSE

\* Variant of send_multipart: the topic frame alone, the payload frame being
\* left to a later call.
send_multipart_topicOnly(topic) ==
    <<[part |-> "topic", of |-> topic, more |-> TRUE]>>

\* socket.send_multipart([topic, data]): one call that queues the topic frame
\* with SNDMORE and the payload frame after it.
send_multipart(topic) ==
    <<[part |-> "topic", of |-> topic, more |-> TRUE],
      [part |-> "payload", of |-> topic, more |-> FALSE]>>

\* The frames of the transmitted publishes, in order.
RECURSIVE FramesOf(_)
FramesOf(topics) ==
    IF topics = <<>> THEN <<>>
    ELSE send_multipart(Head(topics)) \o FramesOf(Tail(topics))

\* Variant of LoopCheck: the loop body runs once (`if` for `while`).
LoopCheck_once(running) == "done"

\* `while self.is_running:` -- the position the task takes at the loop head.
LoopCheck(running) == IF running THEN "connecting" ELSE "done"

\* What the body of the loop can raise: websockets.connect (OSError), send
\* and read (ConnectionClosed), json.loads (JSONDecodeError), normalize_message
\* (TypeError, which stands for its AttributeError on a non-dict as well),
\* and broker.publish if it let a ZMQError through; all derive
\* from Exception.  CancelledError does not.
Exceptions == {"OSError", "ConnectionClosed", "JSONDecodeError", "TypeError",
               "ZMQError"}

\* Variant of AfterRaise: the handler logs the error and leaves the loop.
AfterRaise_exit(exc, running) ==
    IF exc \in Exceptions THEN "done"
    ELSE (IF exc = "CancelledError" THEN "cancelled" ELSE "failed")

\* Variant of AfterRaise: only connection errors are caught
\* (`except (OSError, ConnectionClosed)`).
AfterRaise_narrow(exc, running) ==
    IF exc \in {"OSError", "ConnectionClosed"}
    THEN (IF running THEN "sleeping" ELSE LoopCheck(running))
    ELSE (IF exc = "CancelledError" THEN "cancelled" ELSE "failed")

\* `except Exception as e:` -- log, sleep when still running, then the loop
\* head; anything else leaves connect() and ends the task.
AfterRaise(exc, running) ==
    IF exc \in Exceptions
    THEN (IF running THEN "sleeping" ELSE LoopCheck(running))
    ELSE (IF exc = "CancelledError" THEN "cancelled" ELSE "failed")

\* The position inside __aexit__ that remembers the exception in flight.
ClosingFor(exc) ==
    CASE exc = "ConnectionClosed" -> "closing_closed"
      [] exc = "JSONDecodeError" -> "closing_json"
      [] exc = "TypeError" -> "closing_type"
      [] exc = "ZMQError" -> "closing_zmq"
      [] OTHER -> "closing_cancel"

PendingIn(position) ==
    CASE position = "closing_closed" -> "ConnectionClosed"
      [] position = "closing_json" -> "JSONDecodeError"
      [] position = "closing_type" -> "TypeError"
      [] position = "closing_zmq" -> "ZMQError"
      [] OTHER -> "CancelledError"

\* Leaving `async with websockets.connect(...)`: __aexit__ awaits the end of
\* a connection that is still closing; next is the position once it is over.
ExitConnection(state, waiting, next) ==
    IF state = "closing" THEN waiting ELSE next

(***************************************************************************)
(* DeltaExchangeClient.normalize_message field by field.  A numeric field  *)
(* of the vendor message is absent, present without being a number (null,  *)
(* text), or a number that is negative, zero or positive.                  *)
(***************************************************************************)

\* Values of the buyer_role field of a trade: absent stands for a missing
\* field and for any value that is neither maker nor taker.
BuyerRoles == {"maker", "taker", "absent"}

Numbers == {"neg", "zero", "pos"}

Values == {"absent", "null"} \cup Numbers

\* The numeric fields normalize_message reads, by message type.
NumericFields(type) ==
    CASE type = "all_trades" -> {"price", "size"}
      [] type = "candlestick_1m" -> {"open", "high", "low", "close", "volume"}
      [] type = "v2/ticker" -> {"best_bid", "best_ask", "last_price",
                                "mark_price", "volume_24h"}
      [] OTHER -> {}

\* Parsed vendor messages (dicts): the type, the buyer_role, the fields.
DeltaMessages ==
    UNION {[type : {t},
            buyer_role : IF t = "all_trades" THEN BuyerRoles ELSE {"absent"},
            num : [NumericFields(t) -> Values]] :
           t \in {"all_trades", "candlestick_1m", "v2/ticker", "heartbeat"}}

NoMessage == [type |-> "none", buyer_role |-> "absent", num |-> <<>>]

NotCalled == [status |-> "not_called"]

\* message.get(key): None when the key is absent.
Get(m, key) == IF m.num[key] = "absent" THEN "null" ELSE m.num[key]

\* Variant of GetOrZero: no default is given.
GetOrZero_noDefault(m, key) ==
    IF m.num[key] = "absent" THEN "null" ELSE m.num[key]

\* message.get(key, 0): 0 when the key is absent.
GetOrZero(m, key) == IF m.num[key] = "absent" THEN "zero" ELSE m.num[key]

\* float(v) raises on None and on text, and keeps the sign of a number.
FloatRaises(v) == v \notin Numbers

\* The keys of the returned dict and the vendor value each is the float of.
Converted(m) ==
    CASE m.type = "all_trades" ->
             [price |-> Get(m, "price"), amount |-> Get(m, "size")]
      [] m.type = "candlestick_1m" ->
             [open |-> Get(m, "open"), high |-> Get(m, "high"),
              low |-> Get(m, "low"), close |-> Get(m, "close"),
              volume |-> Get(m, "volume")]
      [] m.type = "v2/ticker" ->
             [bid |-> GetOrZero(m, "best_bid"),
              ask |-> GetOrZero(m, "best_ask"),
              last |-> GetOrZero(m, "last_price"),
              mark_price |-> GetOrZero(m, "mark_price"),
              volume_24h |-> GetOrZero(m, "volume_24h")]
      [] OTHER -> <<>>

\* normalize_message(message) for a dict: None for a type it does not know,
\* an exception when a float() raises, else the update with its suffix.
NormalizeDelta(m) ==
    IF NumericFields(m.type) = {} THEN [status |-> "none"]
    ELSE IF \E k \in DOMAIN Converted(m) : FloatRaises(Converted(m)[k])
    THEN [status |-> "raise"]
    ELSE [status |-> "value",
          suffix |-> CASE m.type = "all_trades" -> "trades"
                       [] m.type = "candlestick_1m" -> "ohlcv"
                       [] OTHER -> "ticker",
          side |-> IF m.type = "all_trades" THEN trade_side(m.buyer_role)
                   ELSE "none",
          data |-> Converted(m)]

\* normalize_message is called on the message.
Normalize ==
    /\ normalized = NotCalled
    /\ normalized' = NormalizeDelta(message)
    /\ UNCHANGED <<brokerVars, sent, published, wire, callVars, pipeVars,
                   message, mgrVars, is_running, ws, pc, wake, must_cancel,
                   ready, sub_sent, histVars, userVars,
                   in_flight>>

(***************************************************************************)
(* The connect() task of client i, one action per run between two awaits.  *)
(***************************************************************************)

\* First run of the task: connect() sets the flag and enters the loop.
TaskFirstStep(i) ==
    /\ Scheduled(i) /\ ~must_cancel[i]
    /\ pc[i] = "unstarted"
    /\ is_running' = [is_running EXCEPT ![i] = TRUE]
    /\ pc' = [pc EXCEPT ![i] = LoopCheck(TRUE)]
    /\ wake' = [wake EXCEPT ![i] = "none"]
    /\ ready' = Tail(ready)
    /\ sent' = <<>> /\ published' = <<>> /\ wire' = <<>>
    /\ UNCHANGED <<callVars, pipeVars, otherVars>>
    /\ UNCHANGED <<brokerVars, mgrVars, ws, must_cancel, sub_sent, histVars>>

\* The task is resumed with CancelledError, which `except Exception` does not
\* catch; inside `async with` the connection is closed on the way out.
TaskCancelled(i) ==
    /\ Scheduled(i) /\ must_cancel[i]
    /\ pc[i] \in Suspended
    /\ must_cancel' = [must_cancel EXCEPT ![i] = FALSE]
    /\ wake' = [wake EXCEPT ![i] = "none"]
    /\ ready' = Tail(ready)
    /\ ws' = [ws EXCEPT ![i] =
                 IF pc[i] = "reading" /\ @ = "open" THEN "closing" ELSE @]
    /\ pc' = [pc EXCEPT ![i] =
                 IF pc[i] = "reading"
                 THEN ExitConnection(ws'[i], ClosingFor("CancelledError"),
                                     AfterRaise("CancelledError",
                                                is_running[i]))
                 ELSE AfterRaise("CancelledError", is_running[i])]
    /\ sent' = <<>> /\ published' = <<>> /\ wire' = <<>>
    /\ UNCHANGED <<callVars, pipeVars, otherVars>>
    /\ UNCHANGED <<brokerVars, mgrVars, is_running, sub_sent, histVars>>

\* Variant of TaskConnected: the subscription request is not sent.
TaskConnected_noSubscribe(i) ==
    /\ Scheduled(i) /\ ~must_cancel[i]
    /\ pc[i] = "connecting" /\ wake[i] = "conn_ok"
    /\ wake' = [wake EXCEPT ![i] = "none"]
    /\ ready' = Tail(ready)
    /\ ws' = [ws EXCEPT ![i] = "open"]
    /\ sub_sent' = [sub_sent EXCEPT ![i] = 0]
    /\ pc' = [pc EXCEPT ![i] = "reading"]
    /\ sent' = <<>> /\ published' = <<>> /\ wire' = <<>>
    /\ UNCHANGED <<callVars, pipeVars, otherVars>>
    /\ UNCHANGED <<brokerVars, mgrVars, is_running, must_cancel,
                   histVars>>

\* websockets.connect succeeded: bind self.ws, send the subscription, start
\* reading.  A send that fails means the connection is gone.
TaskConnected(i) ==
    /\ Scheduled(i) /\ ~must_cancel[i]
    /\ pc[i] = "connecting" /\ wake[i] = "conn_ok"
    /\ wake' = [wake EXCEPT ![i] = "none"]
    /\ ready' = Tail(ready)
    /\ \E send_ok \in BOOLEAN :
          IF send_ok
          THEN /\ ws' = [ws EXCEPT ![i] = "open"]
               /\ sub_sent' = [sub_sent EXCEPT ![i] = 1]
               /\ pc' = [pc EXCEPT ![i] = "reading"]
          ELSE /\ ws' = [ws EXCEPT ![i] = "closed"]
               /\ sub_sent' = [sub_sent EXCEPT ![i] = 0]
               /\ pc' = [pc EXCEPT ![i] =
                            AfterRaise("ConnectionClosed", is_running[i])]
    /\ sent' = <<>> /\ published' = <<>> /\ wire' = <<>>
    /\ UNCHANGED <<callVars, pipeVars, otherVars>>
    /\ UNCHANGED <<brokerVars, mgrVars, is_running, must_cancel,
                   histVars>>

\* websockets.connect raised.
TaskConnectFailed(i) ==
    /\ Scheduled(i) /\ ~must_cancel[i]
    /\ pc[i] = "connecting" /\ wake[i] = "conn_err"
    /\ wake' = [wake EXCEPT ![i] = "none"]
    /\ ready' = Tail(ready)
    /\ pc' = [pc EXCEPT ![i] = AfterRaise("OSError", is_running[i])]
    /\ sent' = <<>> /\ published' = <<>> /\ wire' = <<>>
    /\ UNCHANGED <<callVars, pipeVars, otherVars>>
    /\ UNCHANGED <<brokerVars, mgrVars, is_running, ws, must_cancel,
                   sub_sent, histVars>>

\* One message of `async for message in websocket`: parse, normalize,
\* publish every update, read on.  An exception leaves the `async with`.
TaskMessage(i) ==
    /\ Scheduled(i) /\ ~must_cancel[i]
    /\ pc[i] = "reading" /\ wake[i] \in Frames
    /\ wake' = [wake EXCEPT ![i] = "none"]
    /\ ready' = Tail(ready)
    /\ LET frame == wake[i]
           result == normalize_message(frame)
           ups == UpdatesOf(result)
           exc == IF json_loads_raises(frame) THEN "JSONDecodeError"
                  ELSE "TypeError"
       IN IF json_loads_raises(frame) \/ result.shape = "raise"
          THEN /\ ws' = [ws EXCEPT ![i] =
                            IF @ = "open" THEN "closing" ELSE @]
               /\ pc' = [pc EXCEPT ![i] =
                            ExitConnection(ws'[i], ClosingFor(exc),
                                           AfterRaise(exc, is_running[i]))]
               /\ sent' = <<>> /\ published' = <<>> /\ wire' = <<>>
          ELSE \E oks \in [1..Len(ups) -> BOOLEAN] :
                  /\ published' = PublishCalls(i, ups)
                  /\ sent' = PublishAll(broker_is_running, i, ups, oks)
                  /\ wire' = FramesOf(sent')
                  /\ IF \E k \in 1..Len(ups) :
                            PublishRaises(broker_is_running, oks[k])
                     THEN /\ ws' = [ws EXCEPT ![i] =
                                       IF @ = "open" THEN "closing" ELSE @]
                          /\ pc' = [pc EXCEPT ![i] =
                                       ExitConnection(
                                           ws'[i], ClosingFor("ZMQError"),
                                           AfterRaise("ZMQError",
                                                      is_running[i]))]
                     ELSE UNCHANGED <<ws, pc>>
    /\ UNCHANGED <<brokerVars, mgrVars, is_running, must_cancel, sub_sent,
                   histVars, callVars, pipeVars, otherVars>>

\* Variant of TaskReadEnd: a connection that ended normally is followed by
\* the reconnect delay as well.
TaskReadEnd_delay(i) ==
    /\ Scheduled(i) /\ ~must_cancel[i]
    /\ pc[i] = "reading" /\ wake[i] = "end"
    /\ wake' = [wake EXCEPT ![i] = "none"]
    /\ ready' = Tail(ready)
    /\ pc' = [pc EXCEPT ![i] =
                 ExitConnection(ws[i], "closing_normal",
                                IF is_running[i] THEN "sleeping"
                                ELSE LoopCheck(is_running[i]))]
    /\ sent' = <<>> /\ published' = <<>> /\ wire' = <<>>
    /\ UNCHANGED <<callVars, pipeVars, otherVars>>
    /\ UNCHANGED <<brokerVars, mgrVars, is_running, ws, must_cancel,
                   sub_sent, histVars>>

\* The iteration ended because the connection closed normally.
TaskReadEnd(i) ==
    /\ Scheduled(i) /\ ~must_cancel[i]
    /\ pc[i] = "reading" /\ wake[i] = "end"
    /\ wake' = [wake EXCEPT ![i] = "none"]
    /\ ready' = Tail(ready)
    /\ pc' = [pc EXCEPT ![i] =
                 ExitConnection(ws[i], "closing_normal",
                                LoopCheck(is_running[i]))]
    /\ sent' = <<>> /\ published' = <<>> /\ wire' = <<>>
    /\ UNCHANGED <<callVars, pipeVars, otherVars>>
    /\ UNCHANGED <<brokerVars, mgrVars, is_running, ws, must_cancel,
                   sub_sent, histVars>>

\* The read raised (connection closed with an error).
TaskReadError(i) ==
    /\ Scheduled(i) /\ ~must_cancel[i]
    /\ pc[i] = "reading" /\ wake[i] = "read_err"
    /\ wake' = [wake EXCEPT ![i] = "none"]
    /\ ready' = Tail(ready)
    /\ pc' = [pc EXCEPT ![i] =
                 ExitConnection(ws[i], ClosingFor("ConnectionClosed"),
                                AfterRaise("ConnectionClosed",
                                           is_running[i]))]
    /\ sent' = <<>> /\ published' = <<>> /\ wire' = <<>>
    /\ UNCHANGED <<callVars, pipeVars, otherVars>>
    /\ UNCHANGED <<brokerVars, mgrVars, is_running, ws, must_cancel,
                   sub_sent, histVars>>

\* __aexit__ of the connection returned: continue with what left the block.
TaskClosed(i) ==
    /\ Scheduled(i) /\ ~must_cancel[i]
    /\ pc[i] \in Closing
    /\ wake[i] = "closed"
    /\ wake' = [wake EXCEPT ![i] = "none"]
    /\ ready' = Tail(ready)
    /\ pc' = [pc EXCEPT ![i] =
                 IF pc[i] = "closing_normal"
                 THEN LoopCheck(is_running[i])
                 ELSE AfterRaise(PendingIn(pc[i]), is_running[i])]
    /\ sent' = <<>> /\ published' = <<>> /\ wire' = <<>>
    /\ UNCHANGED <<callVars, pipeVars, otherVars>>
    /\ UNCHANGED <<brokerVars, mgrVars, is_running, ws, must_cancel,
                   sub_sent, histVars>>

\* asyncio.sleep(5) is over: back to the loop head.
TaskDelayOver(i) ==
    /\ Scheduled(i) /\ ~must_cancel[i]
    /\ pc[i] = "sleeping" /\ wake[i] = "timer"
    /\ wake' = [wake EXCEPT ![i] = "none"]
    /\ ready' = Tail(ready)
    /\ pc' = [pc EXCEPT ![i] = LoopCheck(is_running[i])]
    /\ sent' = <<>> /\ published' = <<>> /\ wire' = <<>>
    /\ UNCHANGED <<callVars, pipeVars, otherVars>>
    /\ UNCHANGED <<brokerVars, mgrVars, is_running, ws, must_cancel,
                   sub_sent, histVars>>

(***************************************************************************)
(* The network and the timer: what the tasks are waiting for.              *)
(***************************************************************************)

Waiting(i, at) == pc[i] = at /\ wake[i] = "none"

WakeTask(i, with) ==
    /\ wake' = [wake EXCEPT ![i] = with]
    /\ ready' = Append(ready, i)

ConnectSucceeds(i) ==
    /\ Waiting(i, "connecting")
    /\ WakeTask(i, "conn_ok")
    /\ sent' = <<>> /\ published' = <<>> /\ wire' = <<>>
    /\ UNCHANGED <<callVars, pipeVars, otherVars>>
    /\ UNCHANGED <<brokerVars, mgrVars, is_running, ws, pc,
                   must_cancel, sub_sent, histVars>>

ConnectFails(i) ==
    /\ Waiting(i, "connecting")
    /\ WakeTask(i, "conn_err")
    /\ sent' = <<>> /\ published' = <<>> /\ wire' = <<>>
    /\ UNCHANGED <<callVars, pipeVars, otherVars>>
    /\ UNCHANGED <<brokerVars, mgrVars, is_running, ws, pc,
                   must_cancel, sub_sent, histVars>>

\* A frame arrives; frames in flight still arrive during the closing handshake.
FrameArrives(i) ==
    /\ Waiting(i, "reading")
    /\ ws[i] \in {"open", "closing"}
    /\ \E frame \in Frames : WakeTask(i, frame)
    /\ sent' = <<>> /\ published' = <<>> /\ wire' = <<>>
    /\ UNCHANGED <<callVars, pipeVars, otherVars>>
    /\ UNCHANGED <<brokerVars, mgrVars, is_running, ws, pc,
                   must_cancel, sub_sent, histVars>>

\* The exchange ends or breaks an open connection.
ConnectionLost(i) ==
    /\ Waiting(i, "reading")
    /\ ws[i] = "open"
    /\ ws' = [ws EXCEPT ![i] = "closed"]
    /\ \E how \in {"end", "read_err"} : WakeTask(i, how)
    /\ sent' = <<>> /\ published' = <<>> /\ wire' = <<>>
    /\ UNCHANGED <<callVars, pipeVars, otherVars>>
    /\ UNCHANGED <<brokerVars, mgrVars, is_running, pc, must_cancel,
                   sub_sent, histVars>>

\* A blocked read returns because the connection was closed locally.
ReadReturns(i) ==
    /\ Waiting(i, "reading")
    /\ ws[i] \in {"closing", "closed"}
    /\ \E how \in {"end", "read_err"} : WakeTask(i, how)
    /\ sent' = <<>> /\ published' = <<>> /\ wire' = <<>>
    /\ UNCHANGED <<callVars, pipeVars, otherVars>>
    /\ UNCHANGED <<brokerVars, mgrVars, is_running, ws, pc,
                   must_cancel, sub_sent, histVars>>

TimerFires(i) ==
    /\ Waiting(i, "sleeping")
    /\ WakeTask(i, "timer")
    /\ sent' = <<>> /\ published' = <<>> /\ wire' = <<>>
    /\ UNCHANGED <<callVars, pipeVars, otherVars>>
    /\ UNCHANGED <<brokerVars, mgrVars, is_running, ws, pc,
                   must_cancel, sub_sent, histVars>>

\* The closing handshake of ws[i] completes: everyone awaiting close() is
\* woken, the task's own __aexit__ and the caller of stop() in either order.
WsClosed(i) ==
    /\ ws[i] = "closing"
    /\ ws' = [ws EXCEPT ![i] = "closed"]
    /\ LET task_waits == pc[i] \in Closing /\ wake[i] = "none"
           caller_waits == mpc \in {"stop_wait", "h_wait"} /\ clients[mIdx] = i
           t == IF task_waits THEN <<i>> ELSE <<>>
           c == IF caller_waits THEN <<0>> ELSE <<>>
       IN /\ wake' = [wake EXCEPT ![i] = IF task_waits THEN "closed" ELSE @]
          /\ ready' \in {ready \o t \o c, ready \o c \o t}
          /\ mpc' = IF caller_waits
                    THEN (IF mpc = "stop_wait" THEN "stop_woken"
                          ELSE "h_woken")
                    ELSE mpc
    /\ sent' = <<>> /\ published' = <<>> /\ wire' = <<>>
    /\ UNCHANGED <<callVars, pipeVars, otherVars>>
    /\ UNCHANGED <<brokerVars, mIdx, tasks, start_raised, is_running,
                   pc, must_cancel, sub_sent, histVars>>


(***************************************************************************)
(* BaseExchangeClient.stop and Task.cancel, as seen by their caller.       *)
(***************************************************************************)

\* stop() awaits self.ws.close() when self.ws is a connection not yet closed.
StopSuspends(i) == ws[i] \in {"open", "closing"}

\* Variant of ClientStop: the flag is cleared, the connection is left open.
ClientStop_noClose(i) ==
    /\ is_running' = [is_running EXCEPT ![i] = FALSE]
    /\ ws' = ws
    /\ stop_at' = [stop_at EXCEPT ![i] = pc[i]]
    /\ stop_returned' = [stop_returned EXCEPT ![i] = ~StopSuspends(i)]

\* Variant of ClientStop: the flag is one attribute shared by the clients.
ClientStop_shared(i) ==
    /\ is_running' = [j \in Clients |-> FALSE]
    /\ ws' = [ws EXCEPT ![i] = IF @ = "open" THEN "closing" ELSE @]
    /\ stop_at' = [stop_at EXCEPT ![i] = pc[i]]
    /\ stop_returned' = [stop_returned EXCEPT ![i] = ~StopSuspends(i)]

\* BaseExchangeClient.stop up to its await: clear the flag, start closing.
ClientStop(i) ==
    /\ is_running' = [is_running EXCEPT ![i] = FALSE]
    /\ ws' = [ws EXCEPT ![i] = IF @ = "open" THEN "closing" ELSE @]
    /\ stop_at' = [stop_at EXCEPT ![i] = pc[i]]
    /\ stop_returned' = [stop_returned EXCEPT ![i] = ~StopSuspends(i)]

\* task.cancel(): nothing on a finished task; otherwise CancelledError is
\* thrown into the task the next time it runs, and a task that is waiting is
\* made ready for that.
TaskCancel(t) ==
    /\ cancel_req' = [cancel_req EXCEPT ![t] = TRUE]
    /\ IF pc[t] \in Ended
       THEN UNCHANGED <<must_cancel, wake, ready>>
       ELSE /\ must_cancel' = [must_cancel EXCEPT ![t] = TRUE]
            /\ IF wake[t] = "none"
               THEN /\ wake' = [wake EXCEPT ![t] = "cancel"]
                    /\ ready' = Append(ready, t)
               ELSE UNCHANGED <<wake, ready>>

(***************************************************************************)
(* manager.py and StreamerManager: the startup handler runs start(), the   *)
(* shutdown handler runs stop().  One action per statement, so that the    *)
(* order inside a method is visible; coroutine 0 keeps the loop until it   *)
(* awaits a close or returns.                                              *)
(***************************************************************************)

\* startup_event is invoked.
HostStartup ==
    /\ mpc = "init"
    /\ mpc' = "start_bind"
    /\ sent' = <<>> /\ published' = <<>> /\ wire' = <<>>
    /\ UNCHANGED <<callVars, pipeVars, otherVars>>
    /\ UNCHANGED <<brokerVars, mIdx, tasks, start_raised, is_running,
                   ws, pc, wake, must_cancel, ready, sub_sent,
                   histVars>>

\* Variant of MgrStartBind: a bind failure is logged and start() goes on.
MgrStartBind_swallow ==
    /\ mpc = "start_bind"
    /\ socket_bound' = ~addr_in_use
    /\ broker_is_running' = ~addr_in_use
    /\ binds' = IF addr_in_use THEN binds ELSE binds + 1
    /\ mpc' = "start_spawn"
    /\ mIdx' = 1
    /\ sent' = <<>> /\ published' = <<>> /\ wire' = <<>>
    /\ UNCHANGED <<stops, broker_raised, pipeVars, otherVars>>
    /\ UNCHANGED <<addr_in_use, socket_closed, start_raised, tasks,
                   is_running, ws, pc, wake, must_cancel, ready, sub_sent,
                   histVars>>

\* `await self.broker.start()`: bind, or log and re-raise; start() has no
\* handler, so it raises too and startup_event logs the failure.
MgrStartBind ==
    /\ mpc = "start_bind"
    /\ IF addr_in_use
       THEN /\ start_raised' = TRUE
            /\ mpc' = "start_failed"
            /\ broker_raised' = broker_raised \cup {"start"}
            /\ UNCHANGED <<broker_is_running, socket_bound, mIdx, binds>>
       ELSE /\ socket_bound' = TRUE
            /\ broker_is_running' = TRUE
            /\ binds' = binds + 1
            /\ mpc' = "start_spawn"
            /\ mIdx' = 1
            /\ UNCHANGED <<start_raised, broker_raised>>
    /\ sent' = <<>> /\ published' = <<>> /\ wire' = <<>>
    /\ UNCHANGED <<stops, pipeVars, otherVars>>
    /\ UNCHANGED <<addr_in_use, socket_closed, tasks, is_running, ws,
                   pc, wake, must_cancel, ready, sub_sent,
                   histVars>>

\* Variant of MgrStartSpawn: the loop stops one client short.
MgrStartSpawn_short ==
    /\ mpc = "start_spawn"
    /\ IF mIdx < Len(clients)
       THEN /\ pc' = [pc EXCEPT ![clients[mIdx]] = "unstarted"]
            /\ wake' = [wake EXCEPT ![clients[mIdx]] = "go"]
            /\ ready' = Append(ready, clients[mIdx])
            /\ tasks' = Append(tasks, clients[mIdx])
            /\ mIdx' = mIdx + 1
            /\ mpc' = mpc
       ELSE /\ mpc' = "started"
            /\ UNCHANGED <<pc, wake, ready, tasks, mIdx>>
    /\ sent' = <<>> /\ published' = <<>> /\ wire' = <<>>
    /\ UNCHANGED <<callVars, pipeVars, otherVars>>
    /\ UNCHANGED <<brokerVars, start_raised, is_running, ws,
                   must_cancel, sub_sent, histVars>>

\* `for client in self.clients: task = asyncio.create_task(...); append`.
MgrStartSpawn ==
    /\ mpc = "start_spawn"
    /\ IF mIdx <= Len(clients)
       THEN /\ pc' = [pc EXCEPT ![clients[mIdx]] = "unstarted"]
            /\ wake' = [wake EXCEPT ![clients[mIdx]] = "go"]
            /\ ready' = Append(ready, clients[mIdx])
            /\ tasks' = Append(tasks, clients[mIdx])
            /\ mIdx' = mIdx + 1
            /\ mpc' = mpc
       ELSE /\ mpc' = "started"
            /\ UNCHANGED <<pc, wake, ready, tasks, mIdx>>
    /\ sent' = <<>> /\ published' = <<>> /\ wire' = <<>>
    /\ UNCHANGED <<callVars, pipeVars, otherVars>>
    /\ UNCHANGED <<brokerVars, start_raised, is_running, ws,
                   must_cancel, sub_sent, histVars>>

\* shutdown_event is invoked: it runs when the loop gets to it.
HostShutdown ==
    /\ mpc \in {"started", "start_failed"}
    /\ mpc' = "shutdown_queued"
    /\ ready' = Append(ready, 0)
    /\ sent' = <<>> /\ published' = <<>> /\ wire' = <<>>
    /\ UNCHANGED <<callVars, pipeVars, otherVars>>
    /\ UNCHANGED <<brokerVars, mIdx, tasks, start_raised, is_running,
                   ws, pc, wake, must_cancel, sub_sent,
                   histVars>>

\* stop() begins.
MgrStopBegin ==
    /\ Scheduled(0) /\ mpc = "shutdown_queued"
    /\ ready' = Tail(ready)
    /\ mpc' = "stop_clients"
    /\ mIdx' = 1
    /\ sent' = <<>> /\ published' = <<>> /\ wire' = <<>>
    /\ UNCHANGED <<callVars, pipeVars, otherVars>>
    /\ UNCHANGED <<brokerVars, tasks, start_raised, is_running, ws,
                   pc, wake, must_cancel, sub_sent, histVars>>

\* `for client in self.clients: await client.stop()`.
MgrStopClient ==
    /\ mpc = "stop_clients"
    /\ IF mIdx <= Len(clients)
       THEN /\ ClientStop(clients[mIdx])
            /\ IF StopSuspends(clients[mIdx])
               THEN mpc' = "stop_wait" /\ mIdx' = mIdx
               ELSE mpc' = mpc /\ mIdx' = mIdx + 1
       ELSE /\ mpc' = "stop_cancel"
            /\ mIdx' = 1
            /\ UNCHANGED <<is_running, ws, stop_at, stop_returned>>
    /\ sent' = <<>> /\ published' = <<>> /\ wire' = <<>>
    /\ UNCHANGED <<callVars, pipeVars, otherVars>>
    /\ UNCHANGED <<brokerVars, tasks, start_raised, pc, wake,
                   must_cancel, ready, sub_sent, cancel_req>>

\* `await self.ws.close()` returned inside client.stop(): next client.
MgrStopResume ==
    /\ Scheduled(0) /\ mpc = "stop_woken"
    /\ ready' = Tail(ready)
    /\ stop_returned' = [stop_returned EXCEPT ![clients[mIdx]] = TRUE]
    /\ mpc' = "stop_clients"
    /\ mIdx' = mIdx + 1
    /\ sent' = <<>> /\ published' = <<>> /\ wire' = <<>>
    /\ UNCHANGED <<callVars, pipeVars, otherVars>>
    /\ UNCHANGED <<brokerVars, tasks, start_raised, is_running, ws,
                   pc, wake, must_cancel, sub_sent, stop_at,
                   cancel_req>>

\* Variant of MgrStopCancel: the tasks are left alone.
MgrStopCancel_skip ==
    /\ mpc = "stop_cancel"
    /\ mpc' = "stop_broker"
    /\ sent' = <<>> /\ published' = <<>> /\ wire' = <<>>
    /\ UNCHANGED <<callVars, pipeVars, otherVars>>
    /\ UNCHANGED <<brokerVars, mIdx, tasks, start_raised, is_running, ws,
                   pc, wake, must_cancel, ready, sub_sent, histVars>>

\* `for task in self.tasks: task.cancel()`.
MgrStopCancel ==
    /\ mpc = "stop_cancel"
    /\ IF mIdx <= Len(tasks)
       THEN /\ TaskCancel(tasks[mIdx])
            /\ mIdx' = mIdx + 1
            /\ mpc' = mpc
       ELSE /\ mpc' = "stop_broker"
            /\ UNCHANGED <<mIdx, cancel_req, must_cancel, wake, ready>>
    /\ sent' = <<>> /\ published' = <<>> /\ wire' = <<>>
    /\ UNCHANGED <<callVars, pipeVars, otherVars>>
    /\ UNCHANGED <<brokerVars, tasks, start_raised, is_running, ws,
                   pc, sub_sent, stop_at, stop_returned>>

\* `await self.broker.stop()`: clear the flag, close socket and context.
MgrStopBroker ==
    /\ mpc = "stop_broker"
    /\ broker_is_running' = FALSE
    /\ socket_closed' = TRUE
    /\ stops' = stops + 1
    /\ mpc' = "stopped"
    /\ sent' = <<>> /\ published' = <<>> /\ wire' = <<>>
    /\ UNCHANGED <<binds, broker_raised, pipeVars, otherVars>>
    /\ UNCHANGED <<addr_in_use, socket_bound, mIdx, tasks,
                   start_raised, is_running, ws, pc, wake, must_cancel,
                   ready, sub_sent, histVars>>

(***************************************************************************)
(* A direct user of one connector: create_task(client.connect()) is done   *)
(* and stop() is called on the client at any moment, with no cancellation  *)
(* of the task.                                                            *)
(***************************************************************************)

\* The client the direct user drives: the first of self.clients.
Driven == clients[1]

DirectStop(i) ==
    /\ mpc = "h_idle"
    /\ stop_at[i] = "never"
    /\ ClientStop(i)
    /\ mpc' = IF StopSuspends(i) THEN "h_wait" ELSE mpc
    /\ mIdx' = i
    /\ sent' = <<>> /\ published' = <<>> /\ wire' = <<>>
    /\ UNCHANGED <<callVars, pipeVars, otherVars>>
    /\ UNCHANGED <<brokerVars, tasks, start_raised, pc, wake,
                   must_cancel, ready, sub_sent, cancel_req>>

DirectStopReturns ==
    /\ Scheduled(0) /\ mpc = "h_woken"
    /\ ready' = Tail(ready)
    /\ stop_returned' = [stop_returned EXCEPT ![mIdx] = TRUE]
    /\ mpc' = "h_idle"
    /\ sent' = <<>> /\ published' = <<>> /\ wire' = <<>>
    /\ UNCHANGED <<callVars, pipeVars, otherVars>>
    /\ UNCHANGED <<brokerVars, mIdx, tasks, start_raised, is_running,
                   ws, pc, wake, must_cancel, sub_sent,
                   stop_at, cancel_req>>

(***************************************************************************)
(* A direct user of the broker: start() and stop() are called on it at any *)
(* moment and any number of times while a connector publishes to it.       *)
(***************************************************************************)

\* What socket.bind(self.address) can do.  It raises when the address is
\* held by another socket and on a closed socket (ENOTSOCK).  On a socket
\* that is already bound to the address the outcome is the transport's: ipc
\* removes the socket file and binds again, tcp raises EADDRINUSE.
BindOutcomes(in_use, bound, closed) ==
    IF closed \/ in_use THEN {"raise"}
    ELSE IF bound THEN {"ok", "raise"}
    ELSE {"ok"}

\* ZMQBroker.start: bind and set the flag, or log and re-raise.
BrokerStart ==
    /\ mpc = "h_idle"
    /\ \E outcome \in BindOutcomes(addr_in_use, socket_bound, socket_closed) :
          IF outcome = "ok"
          THEN /\ binds < MaxBinds
               /\ socket_bound' = TRUE
               /\ broker_is_running' = TRUE
               /\ binds' = binds + 1
               /\ UNCHANGED broker_raised
          ELSE /\ broker_raised' = broker_raised \cup {"start"}
               /\ UNCHANGED <<socket_bound, broker_is_running, binds>>
    /\ sent' = <<>> /\ published' = <<>> /\ wire' = <<>>
    /\ UNCHANGED <<addr_in_use, socket_closed, stops, mgrVars, is_running,
                   ws, pc, wake, must_cancel, ready, sub_sent, histVars,
                   pipeVars, otherVars>>

\* Variant of BrokerStop: the flag is left as it is.
BrokerStop_keepFlag ==
    /\ mpc = "h_idle"
    /\ stops < MaxStops
    /\ socket_closed' = TRUE
    /\ stops' = stops + 1
    /\ sent' = <<>> /\ published' = <<>> /\ wire' = <<>>
    /\ UNCHANGED <<addr_in_use, broker_is_running, socket_bound, binds,
                   broker_raised, mgrVars, is_running, ws, pc, wake,
                   must_cancel, ready, sub_sent, histVars, pipeVars, otherVars>>

\* ZMQBroker.stop: clear the flag, close the socket, terminate the context;
\* close() and term() do nothing on a socket and context already closed.
BrokerStop ==
    /\ mpc = "h_idle"
    /\ stops < MaxStops
    /\ broker_is_running' = FALSE
    /\ socket_closed' = TRUE
    /\ stops' = stops + 1
    /\ sent' = <<>> /\ published' = <<>> /\ wire' = <<>>
    /\ UNCHANGED <<addr_in_use, socket_bound, binds, broker_raised, mgrVars,
                   is_running, ws, pc, wake, must_cancel, ready, sub_sent,
                   histVars, pipeVars, otherVars>>

(***************************************************************************)
(* The body of `async for message in websocket` on connections that are    *)
(* open and subscribed, message by message: what was received is in inbox, *)
(* oldest first, and every publish call is logged with the side its        *)
(* payload carries.                                                        *)
(***************************************************************************)

\* Received messages: the frame, and the buyer_role of a trade.
Messages ==
    {[frame |-> f, buyer_role |-> "absent"] : f \in Frames}
    \cup {[frame |-> f, buyer_role |-> r] :
              f \in {"all_trades", "all_trades_no_price"},
              r \in {"maker", "taker"}}

\* What the exchanges can have sent, MaxMessages in all, in the order of
\* arrival: the connection and the message.
Arrivals == UNION {[1..k -> Clients \X Messages] : k \in 0..MaxMessages}

\* The messages of arr that arrived on connection i, oldest first.
InboxOf(arr, i) ==
    LET Mine(a) == a[1] = i
        mine == SelectSeq(arr, Mine)
    IN [k \in 1..Len(mine) |-> mine[k][2]]

\* json.loads or normalize_message raises on the message.
Raises(m) ==
    json_loads_raises(m.frame) \/ normalize_message(m.frame).shape = "raise"

\* The publish calls of connector i for message m, in the order of the
\* updates: kind, topic and the side in the payload.
CallsFor(i, m) ==
    LET result == normalize_message(m.frame)
        ups == UpdatesOf(result)
    IN [k \in 1..Len(ups) |->
           [kind |-> ups[k],
            topic |-> Topic(ups[k], i),
            side |-> IF result.shape = "dict"
                     THEN trade_side(m.buyer_role) ELSE "none"]]

\* Variant of NextMessage: the newest message first.
NextMessage_newest(box) == box[Len(box)]

\* `async for message in websocket` yields the oldest message not yet read.
NextMessage(box) == Head(box)

\* One iteration of the loop on connection i.
ReadMessage(i) ==
    /\ pc[i] = "reading" /\ inbox[i] # <<>>
    /\ inbox' = [inbox EXCEPT ![i] = Tail(@)]
    /\ LET m == NextMessage(inbox[i])
           ups == UpdatesOf(normalize_message(m.frame))
           exc == IF json_loads_raises(m.frame) THEN "JSONDecodeError"
                  ELSE "TypeError"
       IN IF Raises(m)
          THEN /\ ws' = [ws EXCEPT ![i] = "closing"]
               /\ pc' = [pc EXCEPT ![i] =
                            ExitConnection(ws'[i], ClosingFor(exc),
                                           AfterRaise(exc, is_running[i]))]
               /\ sent' = <<>> /\ published' = <<>> /\ wire' = <<>>
               /\ UNCHANGED log
          ELSE /\ log' = [log EXCEPT ![i] = @ \o CallsFor(i, m)]
               /\ published' = PublishCalls(i, ups)
               /\ \E oks \in [1..Len(ups) -> BOOLEAN] :
                     sent' = PublishAll(broker_is_running, i, ups, oks)
               /\ wire' = FramesOf(sent')
               /\ UNCHANGED <<ws, pc>>
    /\ UNCHANGED <<brokerVars, callVars, mgrVars, is_running, wake,
                   must_cancel, ready, sub_sent, histVars, received,
                   otherVars>>

(***************************************************************************)
(* The user service: the users and sessions tables, and the calls of       *)
(* AuthService, SessionService and SessionRepository, each run to its end  *)
(* before the next one starts.                                             *)
(***************************************************************************)

\* Sessions created in one behaviour of the callers of the session
\* operations.
MaxSessions == 4

\* Sessions created in one behaviour of any caller: one more than the limit
\* of _create_user_session.
MaxCreated == 5

\* Largest max_sessions a direct call of enforce_session_limit is given.
MaxLimit == 3

\* max_sessions=4 in _create_user_session.
SessionLimit == 4

\* Email addresses; users.email is unique, so there is one row per address.
Emails == {"a@x.io", "b@x.io"}

\* Usernames; the schema asks for 3 to 50 characters, an address passes.
Usernames == {"ann", "a@x.io"}

Passwords == {"password1", "password2"}

\* Sessions created in one behaviour of the callers of AuthService.
MaxAuthSessions == 1

\* Six-digit codes a caller may submit.
Codes == {"111111", "222222"}

\* generate_verification_code: a stored code is only ever compared with a
\* submitted one, so one generated value stands for all of them.
GeneratedCodes == {"111111"}

\* What a caller may give as identifier.
Identifiers == Emails \cup Usernames \cup {"nobody"}

\* Primary keys of the users table, in the order of creation.
UserIds == 1..Cardinality(Emails)

\* Primary keys of the sessions table, in the order of creation.
SessionIds == 1..MaxSessions

\* PasswordUtils.generate_password_hash
generate_password_hash(password) == "$2b$12$" \o password

\* PasswordUtils.check_password_hash
check_password_hash(password_hash, password) ==
    password_hash = generate_password_hash(password)

\* A row of the users table that has not been created.
NoUser ==
    [present |-> FALSE, email |-> "", username |-> "", password |-> "",
     is_verified |-> FALSE, verification_code |-> "None", expired |-> FALSE]

\* User(...) as register_user builds it: is_verified defaults to False.
NewUser(email, username, password, code) ==
    [present |-> TRUE, email |-> email, username |-> username,
     password |-> generate_password_hash(password), is_verified |-> FALSE,
     verification_code |-> code, expired |-> FALSE]

\* The last call made of the user service, its arguments and its outcome.
NoRequest ==
    [op |-> "none", identifier |-> "", username |-> "", secret |-> "",
     code |-> "", user_id |-> 0, session_id |-> 0, token |-> 0, max |-> 0,
     data |-> <<>>, updated |-> FALSE, in_time |-> FALSE,
     refresh_token |-> 0, outcome |-> "none"]

\* get_by_email
get_by_email(email) ==
    {u \in UserIds : users[u].present /\ users[u].email = email}

\* get_by_username
get_by_username(username) ==
    {u \in UserIds : users[u].present /\ users[u].username = username}

\* Variant of get_by_identifier: the email alone is compared.
get_by_identifier_emailOnly(identifier) ==
    {u \in UserIds : users[u].present /\ users[u].email = identifier}

\* get_by_identifier: the rows whose email or username is the identifier;
\* first() returns one of them, in no stated order.
get_by_identifier(identifier) ==
    {u \in UserIds : /\ users[u].present
                     /\ \/ users[u].email = identifier
                        \/ users[u].username = identifier}

\* Variant of InvalidCode: any submitted code passes for a stored one.
InvalidCode_storedOnly(u, code) == users[u].verification_code = "None"

\* not user.verification_code or user.verification_code != submitted
InvalidCode(u, code) ==
    users[u].verification_code = "None" \/ users[u].verification_code # code

\* is_verification_code_expired(user.verification_code_expiry)
is_verification_code_expired(u) == users[u].expired

\* The positions in the table of the sessions of a user.
SessionsOf(tbl, user_id) ==
    {k \in 1..Len(tbl) : tbl[k].user_id = user_id}

\* get_active_sessions: the positions of the user's sessions that have not
\* expired; the table is kept in the order of created_at.
ActiveOf(tbl, user_id) ==
    {k \in SessionsOf(tbl, user_id) : ~tbl[k].expired}

\* The table without the rows at the given positions.
Without(tbl, gone) ==
    LET F[k \in 0..Len(tbl)] ==
            IF k = 0 THEN <<>>
            ELSE IF k \in gone THEN F[k - 1] ELSE Append(F[k - 1], tbl[k])
    IN F[Len(tbl)]

\* The number of elements of s that are larger than k.
Newer(s, k) == Cardinality({j \in s : j > k})

\* Variant of ToDelete: at most max_sessions are kept.
ToDelete_keepMax(tbl, user_id, max_sessions) ==
    LET active == ActiveOf(tbl, user_id)
    IN IF Cardinality(active) >= max_sessions
       THEN {k \in active : Newer(active, k) >= max_sessions}
       ELSE {}

\* sessions[max_sessions - 1:] of the active sessions, newest first, when
\* there are at least max_sessions of them.
ToDelete(tbl, user_id, max_sessions) ==
    LET active == ActiveOf(tbl, user_id)
    IN IF Cardinality(active) >= max_sessions
       THEN {k \in active : Newer(active, k) >= max_sessions - 1}
       ELSE {}

\* SessionRepository.enforce_session_limit
enforce_session_limit(tbl, user_id, max_sessions) ==
    Without(tbl, ToDelete(tbl, user_id, max_sessions))

\* Session(...) and SessionRepository.create_session: a new row with a new
\* refresh token, not expired.
create_session(tbl, user_id, id) ==
    Append(tbl,
           [id |-> id, user_id |-> user_id, refresh_token |-> id,
            expired |-> FALSE])

\* Variant of create_user_session: the session is added without enforcing
\* the limit first.
create_user_session_noLimit(tbl, user_id, id) ==
    create_session(tbl, user_id, id)

\* AuthService._create_user_session: enforce the limit, then add a session
\* with a new refresh token.
create_user_session(tbl, user_id, id) ==
    create_session(enforce_session_limit(tbl, user_id, SessionLimit),
                   user_id, id)

\* delete_user_sessions
delete_user_sessions(tbl, user_id) == Without(tbl, SessionsOf(tbl, user_id))

\* session_repository.get_by_id
SessionById(tbl, session_id) ==
    {k \in 1..Len(tbl) : tbl[k].id = session_id}

\* Calls of _create_user_session that may be under way at the same time.
MaxCalls == 2

CallIds == 1..MaxCalls

\* A call that is not under way.
NoCall == [at |-> "idle", user_id |-> 0, sessions_to_delete |-> <<>>]

\* Empty tables and no call made yet.
UsersIdle ==
    /\ in_flight = [c \in CallIds |-> NoCall]
    /\ users = [u \in UserIds |-> NoUser]
    /\ sessions = <<>>
    /\ created = 0
    /\ request = NoRequest

\* The record of a call that raised or returned without changing a row.
Outcome(req, outcome) == [req EXCEPT !.outcome = outcome]

\* AuthService.register_user; a commit that would give two rows the same
\* username is refused by the unique constraint of users.username.
RegisterUser(email, username, password, code) ==
    /\ LET existing_user == get_by_email(email)
           existing_user_by_username == get_by_username(username)
           req == [NoRequest EXCEPT !.op = "register_user",
                                    !.identifier = email,
                                    !.username = username]
           free == {u \in UserIds : ~users[u].present}
       IN /\ IF \E u \in existing_user : users[u].is_verified
             THEN /\ users' = users
                  /\ request' = Outcome(req, "ResourceAlreadyExistsException")
             ELSE IF \E u \in existing_user_by_username : users[u].is_verified
             THEN /\ users' = users
                  /\ request' = Outcome(req, "ResourceAlreadyExistsException")
             ELSE IF existing_user_by_username \ existing_user # {}
             THEN /\ users' = users
                  /\ request' = Outcome(req, "IntegrityError")
             ELSE IF existing_user # {}
             THEN \E u \in existing_user :
                      /\ users' = [users EXCEPT ![u] =
                             [@ EXCEPT !.username = username,
                                       !.password =
                                           generate_password_hash(password),
                                       !.verification_code = code,
                                       !.expired = FALSE]]
                      /\ request' = [req EXCEPT !.outcome = "200",
                                                !.user_id = u]
             ELSE \E u \in free :
                      /\ \A v \in free : u <= v
                      /\ users' = [users EXCEPT ![u] =
                             NewUser(email, username, password, code)]
                      /\ request' = [req EXCEPT !.outcome = "201",
                                                !.user_id = u]
          /\ UNCHANGED <<sessions, created>>
    /\ UNCHANGED streamVars

\* AuthService.login_user
LoginUser(identifier, password) ==
    /\ LET found == get_by_identifier(identifier)
           req == [NoRequest EXCEPT !.op = "login_user",
                                    !.identifier = identifier,
                                    !.secret = password]
       IN /\ IF found = {}
             THEN /\ request' = Outcome(req, "InvalidCredentialsException")
                  /\ UNCHANGED <<sessions, created>>
             ELSE \E u \in found :
                    IF ~users[u].is_verified
                    THEN /\ request' =
                             Outcome(req, "UnauthorizedAccessException")
                         /\ UNCHANGED <<sessions, created>>
                    ELSE IF ~check_password_hash(users[u].password, password)
                    THEN /\ request' =
                             Outcome(req, "InvalidCredentialsException")
                         /\ UNCHANGED <<sessions, created>>
                    ELSE /\ created < MaxCreated
                         /\ sessions' =
                                create_user_session(sessions, u, created + 1)
                         /\ created' = created + 1
                         /\ request' = [req EXCEPT !.outcome = "200",
                                                   !.user_id = u,
                                                   !.token = created + 1]
          /\ UNCHANGED users
    /\ UNCHANGED streamVars

\* AuthService.verify_user
VerifyUser(identifier, code) ==
    /\ LET found == get_by_identifier(identifier)
           req == [NoRequest EXCEPT !.op = "verify_user",
                                    !.identifier = identifier, !.code = code]
       IN IF found = {}
          THEN /\ request' = Outcome(req, "ResourceNotFoundException")
               /\ UNCHANGED <<users, sessions, created>>
          ELSE \E u \in found :
                 IF users[u].is_verified
                 THEN /\ request' = Outcome(req, "ValidationException")
                      /\ UNCHANGED <<users, sessions, created>>
                 ELSE IF InvalidCode(u, code)
                 THEN /\ request' =
                          Outcome(req, "InvalidCredentialsException")
                      /\ UNCHANGED <<users, sessions, created>>
                 ELSE IF is_verification_code_expired(u)
                 THEN /\ request' = Outcome(req, "ValidationException")
                      /\ UNCHANGED <<users, sessions, created>>
                 ELSE /\ created < MaxCreated
                      /\ users' = [users EXCEPT ![u] =
                             [@ EXCEPT !.is_verified = TRUE,
                                       !.verification_code = "None",
                                       !.expired = FALSE]]
                      /\ sessions' =
                             create_user_session(sessions, u, created + 1)
                      /\ created' = created + 1
                      /\ request' = [req EXCEPT !.outcome = "200",
                                                !.user_id = u,
                                                !.token = created + 1]
    /\ UNCHANGED streamVars

\* AuthService.forgot_password
ForgotPassword(identifier, code) ==
    /\ LET found == get_by_identifier(identifier)
           req == [NoRequest EXCEPT !.op = "forgot_password",
                                    !.identifier = identifier]
       IN /\ IF found = {}
             THEN /\ users' = users
                  /\ request' = Outcome(req, "200")
             ELSE \E u \in found :
                    /\ users' = [users EXCEPT ![u] =
                           [@ EXCEPT !.verification_code = code,
                                     !.expired = FALSE]]
                    /\ request' = [req EXCEPT !.outcome = "200",
                                              !.user_id = u]
          /\ UNCHANGED <<sessions, created>>
    /\ UNCHANGED streamVars

\* Variant of ResetPassword: the verification code is left in place.
ResetPassword_keepCode(identifier, code, new_password) ==
    /\ LET found == get_by_identifier(identifier)
           req == [NoRequest EXCEPT !.op = "reset_password",
                                    !.identifier = identifier, !.code = code,
                                    !.secret = new_password]
       IN /\ IF found = {}
             THEN /\ request' = Outcome(req, "ResourceNotFoundException")
                  /\ UNCHANGED <<users, sessions>>
             ELSE \E u \in found :
                    IF InvalidCode(u, code)
                    THEN /\ request' =
                             Outcome(req, "InvalidCredentialsException")
                         /\ UNCHANGED <<users, sessions>>
                    ELSE IF is_verification_code_expired(u)
                    THEN /\ request' = Outcome(req, "ValidationException")
                         /\ UNCHANGED <<users, sessions>>
                    ELSE /\ users' = [users EXCEPT ![u] =
                                [@ EXCEPT !.password =
                                     generate_password_hash(new_password)]]
                         /\ sessions' = delete_user_sessions(sessions, u)
                         /\ request' = [req EXCEPT !.outcome = "200",
                                                   !.user_id = u]
          /\ UNCHANGED created
    /\ UNCHANGED streamVars

\* AuthService.reset_password
ResetPassword(identifier, code, new_password) ==
    /\ LET found == get_by_identifier(identifier)
           req == [NoRequest EXCEPT !.op = "reset_password",
                                    !.identifier = identifier, !.code = code,
                                    !.secret = new_password]
       IN /\ IF found = {}
             THEN /\ request' = Outcome(req, "ResourceNotFoundException")
                  /\ UNCHANGED <<users, sessions>>
             ELSE \E u \in found :
                    IF InvalidCode(u, code)
                    THEN /\ request' =
                             Outcome(req, "InvalidCredentialsException")
                         /\ UNCHANGED <<users, sessions>>
                    ELSE IF is_verification_code_expired(u)
                    THEN /\ request' = Outcome(req, "ValidationException")
                         /\ UNCHANGED <<users, sessions>>
                    ELSE /\ users' = [users EXCEPT ![u] =
                                [@ EXCEPT !.password =
                                     generate_password_hash(new_password),
                                          !.verification_code = "None",
                                          !.expired = FALSE]]
                         /\ sessions' = delete_user_sessions(sessions, u)
                         /\ request' = [req EXCEPT !.outcome = "200",
                                                   !.user_id = u]
          /\ UNCHANGED created
    /\ UNCHANGED streamVars



\* SessionRepository.enforce_session_limit, called on its own.
EnforceSessionLimit(user_id, max_sessions) ==
    /\ sessions' = enforce_session_limit(sessions, user_id, max_sessions)
    /\ request' = [NoRequest EXCEPT !.op = "enforce_session_limit",
                                    !.user_id = user_id,
                                    !.max = max_sessions,
                                    !.outcome = "returned"]
    /\ UNCHANGED <<users, created>>
    /\ UNCHANGED streamVars

\* Variant of DeleteSession: the owner of the session is not compared.
DeleteSession_anyOwner(user_id, session_id, current_refresh_token) ==
    /\ LET session == SessionById(sessions, session_id)
           req == [NoRequest EXCEPT !.op = "delete_session",
                                    !.user_id = user_id,
                                    !.session_id = session_id,
                                    !.token = current_refresh_token]
       IN /\ IF ~users[user_id].present
             THEN /\ sessions' = sessions
                  /\ request' = Outcome(req, "ResourceNotFoundException")
             ELSE IF session = {}
             THEN /\ sessions' = sessions
                  /\ request' = Outcome(req, "ResourceNotFoundException")
             ELSE IF \E k \in session :
                         sessions[k].refresh_token = current_refresh_token
             THEN /\ sessions' = sessions
                  /\ request' = Outcome(req, "InvalidOperationException")
             ELSE /\ sessions' = Without(sessions, session)
                  /\ request' = Outcome(req, "200")
          /\ UNCHANGED <<users, created>>
    /\ UNCHANGED streamVars

\* SessionService.delete_session
DeleteSession(user_id, session_id, current_refresh_token) ==
    /\ LET session == SessionById(sessions, session_id)
           req == [NoRequest EXCEPT !.op = "delete_session",
                                    !.user_id = user_id,
                                    !.session_id = session_id,
                                    !.token = current_refresh_token]
       IN /\ IF ~users[user_id].present
             THEN /\ sessions' = sessions
                  /\ request' = Outcome(req, "ResourceNotFoundException")
             ELSE IF session = {}
             THEN /\ sessions' = sessions
                  /\ request' = Outcome(req, "ResourceNotFoundException")
             ELSE IF \E k \in session : sessions[k].user_id # user_id
             THEN /\ sessions' = sessions
                  /\ request' = Outcome(req, "ResourceNotFoundException")
             ELSE IF \E k \in session :
                         sessions[k].refresh_token = current_refresh_token
             THEN /\ sessions' = sessions
                  /\ request' = Outcome(req, "InvalidOperationException")
             ELSE /\ sessions' = Without(sessions, session)
                  /\ request' = Outcome(req, "200")
          /\ UNCHANGED <<users, created>>
    /\ UNCHANGED streamVars

\* Time passes the expiry of a verification code (15 minutes after it was
\* generated).
CodeExpires(u) ==
    /\ users[u].present
    /\ users[u].verification_code # "None"
    /\ ~users[u].expired
    /\ users' = [users EXCEPT ![u].expired = TRUE]
    /\ request' = [NoRequest EXCEPT !.op = "time_passes"]
    /\ UNCHANGED <<sessions, created>>
    /\ UNCHANGED streamVars

\* Time passes expires_at of a session; every session lives equally long,
\* so the sessions expire in the order they were created.
SessionExpires(k) ==
    /\ k \in 1..Len(sessions)
    /\ ~sessions[k].expired
    /\ \A j \in 1..Len(sessions) :
           sessions[j].id < sessions[k].id => sessions[j].expired
    /\ sessions' = [sessions EXCEPT ![k].expired = TRUE]
    /\ request' = [NoRequest EXCEPT !.op = "time_passes"]
    /\ UNCHANGED <<users, created>>
    /\ UNCHANGED streamVars

\* The data service as it is before StreamerManager.start().
StreamsIdle ==
    /\ in_flight = [c \in CallIds |-> NoCall]
    /\ addr_in_use = FALSE
    /\ broker_is_running = FALSE
    /\ socket_bound = FALSE
    /\ socket_closed = FALSE
    /\ sent = <<>>
    /\ published = <<>>
    /\ wire = <<>>
    /\ binds = 0
    /\ stops = 0
    /\ broker_raised = {}
    /\ inbox = [i \in Clients |-> <<>>]
    /\ received = [i \in Clients |-> <<>>]
    /\ log = [i \in Clients |-> <<>>]
    /\ message = NoMessage
    /\ normalized = NotCalled
    /\ mpc = "init"
    /\ mIdx = 1
    /\ tasks = <<>>
    /\ start_raised = FALSE
    /\ is_running = [i \in Clients |-> FALSE]
    /\ ws = [i \in Clients |-> "none"]
    /\ pc = [i \in Clients |-> "none"]
    /\ wake = [i \in Clients |-> "none"]
    /\ must_cancel = [i \in Clients |-> FALSE]
    /\ ready = <<>>
    /\ sub_sent = [i \in Clients |-> 0]
    /\ stop_at = [i \in Clients |-> "never"]
    /\ stop_returned = [i \in Clients |-> FALSE]
    /\ cancel_req = [i \in Clients |-> FALSE]

\* Empty users and sessions tables.
InitAuth ==
    /\ StreamsIdle
    /\ UsersIdle

\* The callers of AuthService, creating at most MaxAuthSessions sessions
\* within the lifetime of a refresh token, while verification codes expire.
NextAuth ==
    \/ \E email \in Emails, username \in Usernames, password \in Passwords,
          code \in GeneratedCodes :
           RegisterUser(email, username, password, code)
    \/ \E identifier \in Identifiers, password \in Passwords :
           LoginUser(identifier, password) /\ created' <= MaxAuthSessions
    \/ \E identifier \in Identifiers, code \in Codes :
           VerifyUser(identifier, code) /\ created' <= MaxAuthSessions
    \/ \E identifier \in Identifiers, code \in GeneratedCodes :
           ForgotPassword(identifier, code)
    \/ \E identifier \in Identifiers, code \in Codes,
          new_password \in Passwords :
           ResetPassword(identifier, code, new_password)
    \/ \E u \in UserIds : CodeExpires(u)

AuthSpec == InitAuth /\ [][NextAuth]_vars

\* A registered and verified user, with or without a second one, and no
\* session yet.
VerifiedUser(email, username) ==
    [present |-> TRUE, email |-> email, username |-> username,
     password |-> generate_password_hash("password1"),
     is_verified |-> TRUE, verification_code |-> "None", expired |-> FALSE]

InitSession ==
    /\ StreamsIdle
    /\ users \in {[u \in UserIds |->
                      IF u = 1 THEN VerifiedUser("a@x.io", "ann")
                      ELSE IF u = 2 /\ both
                      THEN VerifiedUser("b@x.io", "a@x.io")
                      ELSE NoUser] : both \in BOOLEAN}
    /\ sessions = <<>>
    /\ created = 0
    /\ request = NoRequest

\* The callers of the session operations, with logins creating the
\* sessions and time passing.
NextSession ==
    \/ \E identifier \in Identifiers, password \in Passwords :
           LoginUser(identifier, password) /\ created' <= MaxSessions
    \/ \E user_id \in UserIds, max_sessions \in 1..MaxLimit :
           EnforceSessionLimit(user_id, max_sessions)
    \/ \E user_id \in UserIds, session_id \in SessionIds,
          current_refresh_token \in SessionIds :
           DeleteSession(user_id, session_id, current_refresh_token)
    \/ \E k \in SessionIds : SessionExpires(k)

SessionSpec == InitSession /\ [][NextSession]_vars

\* A registered user who has not verified yet: the code sent is still
\* stored.
UnverifiedUser(email, username) ==
    [present |-> TRUE, email |-> email, username |-> username,
     password |-> generate_password_hash("password1"),
     is_verified |-> FALSE, verification_code |-> "111111",
     expired |-> FALSE]

\* Two registered users, the first verified or not yet, the second with
\* the first one's address as username, and no session.
InitLogins ==
    /\ StreamsIdle
    /\ users \in {[u \in UserIds |->
                      IF u = 1
                      THEN (IF verified THEN VerifiedUser("a@x.io", "ann")
                            ELSE UnverifiedUser("a@x.io", "ann"))
                      ELSE IF u = 2 THEN VerifiedUser("b@x.io", "a@x.io")
                      ELSE NoUser] : verified \in BOOLEAN}
    /\ sessions = <<>>
    /\ created = 0
    /\ request = NoRequest

\* Logins and verifications one after another, while sessions expire.
NextLogins ==
    \/ \E identifier \in Identifiers, password \in Passwords :
           LoginUser(identifier, password)
    \/ \E identifier \in Identifiers, code \in Codes :
           VerifyUser(identifier, code)
    \/ \E k \in 1..MaxCreated : SessionExpires(k)

LoginsSpec == InitLogins /\ [][NextLogins]_vars

\* A refresh token the service has not signed.
Forged == 0

\* What a caller may present as refresh token: one the service has issued
\* (they are numbered like the sessions they were issued with) or a forged
\* one.
Tokens == {Forged} \cup SessionIds

\* JWTUtils.verify_refresh_token: jwt.decode accepts a token that carries
\* the service's signature and whose exp claim has not passed; in_time is
\* the latter.  The exp claim and expires_at of the session are two
\* timestamps taken one after the other, so either may pass first.
verify_refresh_token(token, in_time) == token # Forged /\ in_time

\* session_repository.get_session_by_refresh_token
get_session_by_refresh_token(tbl, refresh_token) ==
    {k \in 1..Len(tbl) : tbl[k].refresh_token = refresh_token}

\* Variant of is_session_valid: the expiry is not looked at.
is_session_valid_exists(tbl, refresh_token) ==
    get_session_by_refresh_token(tbl, refresh_token) # {}

\* SessionRepository.is_session_valid
is_session_valid(tbl, refresh_token) ==
    LET session == get_session_by_refresh_token(tbl, refresh_token)
    IN IF session = {} THEN FALSE
       ELSE \A k \in session : ~tbl[k].expired

\* AuthService.refresh_token
RefreshToken(token, in_time) ==
    /\ token <= created
    /\ LET session == get_session_by_refresh_token(sessions, token)
           req == [NoRequest EXCEPT !.op = "refresh_token",
                                    !.token = token, !.in_time = in_time]
       IN IF ~verify_refresh_token(token, in_time)
          THEN /\ sessions' = sessions
               /\ request' = Outcome(req, "UnauthorizedAccessException")
          ELSE IF session = {}
          THEN /\ sessions' = sessions
               /\ request' = Outcome(req, "UnauthorizedAccessException")
          ELSE \E k \in session :
                 LET found == [req EXCEPT !.session_id = sessions[k].id,
                                          !.user_id = sessions[k].user_id]
                 IN IF ~is_session_valid(sessions, token)
                    THEN /\ sessions' =
                                Without(sessions,
                                        SessionById(sessions, sessions[k].id))
                         /\ request' =
                                Outcome(found, "UnauthorizedAccessException")
                    ELSE IF ~users[sessions[k].user_id].present
                    THEN /\ sessions' = sessions
                         /\ request' =
                                Outcome(found, "ResourceNotFoundException")
                    ELSE /\ sessions' = sessions
                         /\ request' = [found EXCEPT
                                           !.refresh_token = token,
                                           !.outcome = "200"]
    /\ UNCHANGED <<users, created>>
    /\ UNCHANGED streamVars

\* Logins that create the sessions, time passing, and callers presenting
\* refresh tokens.
NextRefresh ==
    \/ \E identifier \in Identifiers, password \in Passwords :
           LoginUser(identifier, password) /\ created' <= MaxSessions
    \/ \E k \in SessionIds : SessionExpires(k)
    \/ \E token \in Tokens, in_time \in BOOLEAN :
           RefreshToken(token, in_time)

RefreshSpec == InitSession /\ [][NextRefresh]_vars

(***************************************************************************)
(* _create_user_session statement by statement.  Every request has its own *)
(* database session (get_db) and every repository call commits, so between *)
(* two awaits of one call the statements of another call may run and their *)
(* effect is visible.                                                      *)
(***************************************************************************)

\* The ids of the rows at the given positions, newest first, as
\* get_active_sessions orders them (desc(created_at)).
RECURSIVE NewestFirst(_, _)
NewestFirst(tbl, positions) ==
    IF positions = {} THEN <<>>
    ELSE LET k == CHOOSE j \in positions : \A i \in positions : i <= j
         IN <<tbl[k].id>> \o NewestFirst(tbl, positions \ {k})

\* login_user or verify_user has accepted the user and calls
\* _create_user_session.
CreateSessionBegin(c, u) ==
    /\ in_flight[c].at = "idle"
    /\ users[u].present /\ users[u].is_verified
    /\ created + Cardinality({d \in CallIds : in_flight[d].at # "idle"})
           < MaxCreated
    /\ in_flight' = [in_flight EXCEPT ![c] =
                         [at |-> "limit", user_id |-> u,
                          sessions_to_delete |-> <<>>]]
    /\ UNCHANGED <<userVars, dataVars>>

\* enforce_session_limit: `sessions = await self.get_active_sessions(...)`
\* and the choice of sessions[max_sessions - 1:].
CreateSessionRead(c) ==
    /\ in_flight[c].at = "limit"
    /\ LET doomed == ToDelete(sessions, in_flight[c].user_id, SessionLimit)
       IN in_flight' = [in_flight EXCEPT ![c] =
                           [@ EXCEPT !.at = IF doomed = {} THEN "create"
                                           ELSE "delete",
                                     !.sessions_to_delete =
                                         NewestFirst(sessions, doomed)]]
    /\ UNCHANGED <<userVars, dataVars>>

\* enforce_session_limit: one `await self.delete(session.id)` of the loop;
\* a row that is gone already is left alone.
CreateSessionDelete(c) ==
    /\ in_flight[c].at = "delete"
    /\ LET todo == in_flight[c].sessions_to_delete
       IN /\ sessions' = Without(sessions, SessionById(sessions, Head(todo)))
          /\ in_flight' = [in_flight EXCEPT ![c] =
                [@ EXCEPT !.at = IF Tail(todo) = <<>> THEN "create"
                                ELSE "delete",
                          !.sessions_to_delete = Tail(todo)]]
    /\ request' = [NoRequest EXCEPT !.op = "delete",
                                    !.user_id = in_flight[c].user_id]
    /\ UNCHANGED <<users, created, dataVars>>

\* `await self.session_repository.create_session(session)` and the return.
CreateSessionInsert(c) ==
    /\ in_flight[c].at = "create"
    /\ sessions' = create_session(sessions, in_flight[c].user_id,
                                  created + 1)
    /\ created' = created + 1
    /\ request' = [NoRequest EXCEPT !.op = "create_user_session",
                                    !.user_id = in_flight[c].user_id,
                                    !.token = created + 1,
                                    !.outcome = "200"]
    /\ in_flight' = [in_flight EXCEPT ![c] = NoCall]
    /\ UNCHANGED <<users, dataVars>>

\* Two verified users and no session yet.
InitConcurrent ==
    /\ StreamsIdle
    /\ users = [u \in UserIds |->
                   IF u = 1 THEN VerifiedUser("a@x.io", "ann")
                   ELSE IF u = 2 THEN VerifiedUser("b@x.io", "bob")
                   ELSE NoUser]
    /\ sessions = <<>>
    /\ created = 0
    /\ request = NoRequest

\* Requests that create sessions, served concurrently, while sessions
\* expire.
NextConcurrent ==
    \/ \E c \in CallIds, u \in UserIds : CreateSessionBegin(c, u)
    \/ \E c \in CallIds : CreateSessionRead(c)
    \/ \E c \in CallIds : CreateSessionDelete(c)
    \/ \E c \in CallIds : CreateSessionInsert(c)
    \/ \E k \in 1..MaxCreated : SessionExpires(k)

ConcurrentSpec == InitConcurrent /\ [][NextConcurrent]_vars

\* The keyword arguments update_user_profile may be given: the two profile
\* fields of the model and the five fields it must not write.
ProfileFields == {"email", "username"}

restricted_fields ==
    {"id", "password", "verification_code", "verification_code_expiry",
     "is_verified"}

\* What a caller may pass for a field: nothing, None or a value.
Supplied(field) ==
    CASE field = "email" -> {"missing", "None"} \cup Emails
      [] field = "username" -> {"missing", "None"} \cup Usernames
      [] field = "is_verified" -> {"missing", "True", "False"}
      [] field = "id" -> {"missing", "other"}
      [] field = "password" -> {"missing", "plain"}
      [] field = "verification_code" -> {"missing", "999999"}
      [] OTHER -> {"missing", "past"}

UpdateData ==
    [email : Supplied("email"), username : Supplied("username"),
     id : Supplied("id"), password : Supplied("password"),
     verification_code : Supplied("verification_code"),
     verification_code_expiry : Supplied("verification_code_expiry"),
     is_verified : Supplied("is_verified")]

\* Variant of filtered_data: the restricted fields are left in.
filtered_data_unrestricted(update_data) ==
    {k \in DOMAIN update_data : update_data[k] \notin {"missing", "None"}}

\* filtered_data: the keys given with a value other than None, without the
\* restricted fields.
filtered_data(update_data) ==
    {k \in DOMAIN update_data : update_data[k] \notin {"missing", "None"}}
        \ restricted_fields

\* BaseRepository.update: setattr(record, key, value) for the given keys.
SetAttrs(row, keys, update_data) ==
    [present |-> TRUE,
     email |-> IF "email" \in keys THEN update_data["email"] ELSE row.email,
     username |-> IF "username" \in keys THEN update_data["username"]
                  ELSE row.username,
     password |-> IF "password" \in keys THEN update_data["password"]
                  ELSE row.password,
     is_verified |-> IF "is_verified" \in keys
                     THEN update_data["is_verified"] = "True"
                     ELSE row.is_verified,
     verification_code |-> IF "verification_code" \in keys
                           THEN update_data["verification_code"]
                           ELSE row.verification_code,
     expired |-> IF "verification_code_expiry" \in keys THEN TRUE
                 ELSE row.expired]

\* The table after the row of user_id is written with the given keys; a
\* new id moves the row to the other primary key.
Written(tbl, user_id, keys, update_data) ==
    LET row == SetAttrs(tbl[user_id], keys, update_data)
    IN IF "id" \in keys
       THEN [u \in UserIds |-> IF u = user_id THEN NoUser
                               ELSE IF tbl[u].present THEN tbl[u] ELSE row]
       ELSE [tbl EXCEPT ![user_id] = row]

\* The commit is refused: an email, a username or a primary key would be
\* held by two rows.
Conflicts(tbl, user_id, keys, update_data) ==
    LET row == SetAttrs(tbl[user_id], keys, update_data)
    IN \E u \in UserIds \ {user_id} :
           /\ tbl[u].present
           /\ \/ tbl[u].email = row.email
              \/ tbl[u].username = row.username
              \/ "id" \in keys

\* UserService.update_user_profile
UpdateUserProfile(user_id, update_data) ==
    /\ LET req == [NoRequest EXCEPT !.op = "update_user_profile",
                                    !.user_id = user_id,
                                    !.data = update_data]
           keys == filtered_data(update_data)
       IN IF ~users[user_id].present
          THEN /\ users' = users
               /\ request' = Outcome(req, "ResourceNotFoundException")
          ELSE IF keys = {}
          THEN /\ users' = users
               /\ request' = Outcome(req, "200")
          ELSE IF Conflicts(users, user_id, keys, update_data)
          THEN /\ users' = users
               /\ request' = [req EXCEPT !.outcome = "IntegrityError",
                                         !.updated = TRUE]
          ELSE /\ users' = Written(users, user_id, keys, update_data)
               /\ request' = [req EXCEPT !.outcome = "200",
                                         !.updated = TRUE]
    /\ UNCHANGED <<sessions, created>>
    /\ UNCHANGED streamVars

\* Users that have registered, the first verified or not, with or without
\* a second, verified one.
InitProfile ==
    /\ StreamsIdle
    /\ users \in {[u \in UserIds |->
                      IF u = 1
                      THEN IF verified THEN VerifiedUser("a@x.io", "ann")
                           ELSE NewUser("a@x.io", "ann", "password1",
                                        "111111")
                      ELSE IF u = 2 /\ both
                      THEN VerifiedUser("b@x.io", "a@x.io")
                      ELSE NoUser] : verified \in BOOLEAN, both \in BOOLEAN}
    /\ sessions = <<>>
    /\ created = 0
    /\ request = NoRequest

\* One call of update_user_profile on the registered users.
NextProfile ==
    \E user_id \in UserIds, update_data \in UpdateData :
        request = NoRequest /\ UpdateUserProfile(user_id, update_data)

ProfileSpec == InitProfile /\ [][NextProfile]_vars

(***************************************************************************)
(* The publish loop of connect() on whatever a connector's                 *)
(* normalize_message may return: None, a dict, a (suffix, payload) tuple   *)
(* or a list of such tuples.                                               *)
(***************************************************************************)

\* The kinds of the topic grammar.
Kinds == {"trades", "ohlcv", "ticker"}

\* Longest list of updates a normalize_message returns.
MaxUpdates == 3

\* The topic suffixes of the pairs in a returned list.
SuffixLists == UNION {[1..n -> Kinds] : n \in 0..MaxUpdates}

\* What normalize_message may return; a dict carries no suffix, a tuple
\* carries one, an empty dict, tuple or list is falsy.
Results ==
    {[shape |-> "None", items |-> <<>>]}
        \cup {[shape |-> "dict", items |-> p] : p \in {<<>>, <<"payload">>}}
        \cup {[shape |-> "tuple", items |-> p] :
                  p \in {<<>>} \cup {<<k>> : k \in Kinds}}
        \cup {[shape |-> "list", items |-> p] : p \in SuffixLists}

\* bool(updates)
Truthy(result) == result.shape # "None" /\ result.items # <<>>

\* Variant of UpdateList: a list is cut to its first pair.
UpdateList_first(result) ==
    IF ~Truthy(result) THEN <<>>
    ELSE IF result.shape = "dict" THEN <<"trades">>
    ELSE <<result.items[1]>>

\* The suffixes the for loop of connect() goes through: the dict as
\* [("trades", updates)], the tuple as [updates], the list as it is.
UpdateList(result) ==
    IF ~Truthy(result) THEN <<>>
    ELSE IF result.shape = "dict" THEN <<"trades">>
    ELSE result.items

\* One message read by connector i whose normalize_message returned
\* `normalized`: the publish calls of lines 41 to 52.
PublishUpdates(i) ==
    /\ received[i] = <<>>
    /\ received' = [received EXCEPT ![i] =
           <<[frame |-> "normalized", buyer_role |-> "absent"]>>]
    /\ log' = [log EXCEPT ![i] =
           [k \in 1..Len(UpdateList(normalized)) |->
               [kind |-> UpdateList(normalized)[k],
                topic |-> Topic(UpdateList(normalized)[k], i),
                side |-> "none"]]]
    /\ UNCHANGED <<brokerVars, sent, published, wire, callVars, inbox,
                   normVars, mgrVars, is_running, ws, pc, wake, must_cancel,
                   ready, sub_sent, histVars, userVars,
                   in_flight>>

(***************************************************************************)
(* Specifications.                                                         *)
(***************************************************************************)

\* After StreamerManager.__init__ and the clients' __init__.
Init ==
    /\ addr_in_use \in BOOLEAN
    /\ broker_is_running = FALSE
    /\ socket_bound = FALSE
    /\ socket_closed = FALSE
    /\ sent = <<>>
    /\ published = <<>>
    /\ wire = <<>>
    /\ binds = 0
    /\ stops = 0
    /\ broker_raised = {}
    /\ inbox = [i \in Clients |-> <<>>]
    /\ received = [i \in Clients |-> <<>>]
    /\ log = [i \in Clients |-> <<>>]
    /\ message = NoMessage
    /\ normalized = NotCalled
    /\ UsersIdle
    /\ mpc = "init"
    /\ mIdx = 1
    /\ tasks = <<>>
    /\ start_raised = FALSE
    /\ is_running = [i \in Clients |-> FALSE]
    /\ ws = [i \in Clients |-> "none"]
    /\ pc = [i \in Clients |-> "none"]
    /\ wake = [i \in Clients |-> "none"]
    /\ must_cancel = [i \in Clients |-> FALSE]
    /\ ready = <<>>
    /\ sub_sent = [i \in Clients |-> 0]
    /\ stop_at = [i \in Clients |-> "never"]
    /\ stop_returned = [i \in Clients |-> FALSE]
    /\ cancel_req = [i \in Clients |-> FALSE]

\* A started broker, and create_task(client.connect()) done for the client.
InitClient ==
    /\ addr_in_use = FALSE
    /\ broker_is_running = TRUE
    /\ socket_bound = TRUE
    /\ socket_closed = FALSE
    /\ sent = <<>>
    /\ published = <<>>
    /\ wire = <<>>
    /\ binds = 1
    /\ stops = 0
    /\ broker_raised = {}
    /\ inbox = [i \in Clients |-> <<>>]
    /\ received = [i \in Clients |-> <<>>]
    /\ log = [i \in Clients |-> <<>>]
    /\ message = NoMessage
    /\ normalized = NotCalled
    /\ UsersIdle
    /\ mpc = "h_idle"
    /\ mIdx = 1
    /\ tasks = <<>>
    /\ start_raised = FALSE
    /\ is_running = [i \in Clients |-> FALSE]
    /\ ws = [i \in Clients |-> "none"]
    /\ pc = [i \in Clients |-> IF i = Driven THEN "unstarted" ELSE "none"]
    /\ wake = [i \in Clients |-> IF i = Driven THEN "go" ELSE "none"]
    /\ must_cancel = [i \in Clients |-> FALSE]
    /\ ready = <<Driven>>
    /\ sub_sent = [i \in Clients |-> 0]
    /\ stop_at = [i \in Clients |-> "never"]
    /\ stop_returned = [i \in Clients |-> FALSE]
    /\ cancel_req = [i \in Clients |-> FALSE]

TaskRun(i) ==
    \/ TaskFirstStep(i)
    \/ TaskConnected(i)
    \/ TaskConnectFailed(i)
    \/ TaskMessage(i)
    \/ TaskReadEnd(i)
    \/ TaskReadError(i)
    \/ TaskClosed(i)
    \/ TaskDelayOver(i)

Network(i) ==
    \/ ConnectSucceeds(i)
    \/ ConnectFails(i)
    \/ FrameArrives(i)
    \/ ConnectionLost(i)

Manager ==
    \/ HostStartup
    \/ MgrStartBind
    \/ MgrStartSpawn
    \/ HostShutdown
    \/ MgrStopBegin
    \/ MgrStopClient
    \/ MgrStopResume
    \/ MgrStopCancel
    \/ MgrStopBroker

Next ==
    \/ Manager
    \/ \E i \in Clients : TaskRun(i)
    \/ \E i \in Clients : TaskCancelled(i)
    \/ \E i \in Clients : Network(i)
    \/ \E i \in Clients : ReadReturns(i)
    \/ \E i \in Clients : TimerFires(i)
    \/ \E i \in Clients : WsClosed(i)

Spec == Init /\ [][Next]_vars

NextClient ==
    \/ DirectStop(Driven)
    \/ DirectStopReturns
    \/ \E i \in Clients : TaskRun(i)
    \/ \E i \in Clients : Network(i)
    \/ \E i \in Clients : ReadReturns(i)
    \/ \E i \in Clients : TimerFires(i)
    \/ \E i \in Clients : WsClosed(i)

ClientSpec == InitClient /\ [][NextClient]_vars

\* A constructed broker that nobody has started, and
\* create_task(client.connect()) done for the client.
InitBroker ==
    /\ addr_in_use \in BOOLEAN
    /\ broker_is_running = FALSE
    /\ socket_bound = FALSE
    /\ socket_closed = FALSE
    /\ sent = <<>>
    /\ published = <<>>
    /\ wire = <<>>
    /\ binds = 0
    /\ stops = 0
    /\ broker_raised = {}
    /\ inbox = [i \in Clients |-> <<>>]
    /\ received = [i \in Clients |-> <<>>]
    /\ log = [i \in Clients |-> <<>>]
    /\ message = NoMessage
    /\ normalized = NotCalled
    /\ UsersIdle
    /\ mpc = "h_idle"
    /\ mIdx = 1
    /\ tasks = <<>>
    /\ start_raised = FALSE
    /\ is_running = [i \in Clients |-> FALSE]
    /\ ws = [i \in Clients |-> "none"]
    /\ pc = [i \in Clients |-> IF i = Driven THEN "unstarted" ELSE "none"]
    /\ wake = [i \in Clients |-> IF i = Driven THEN "go" ELSE "none"]
    /\ must_cancel = [i \in Clients |-> FALSE]
    /\ ready = <<Driven>>
    /\ sub_sent = [i \in Clients |-> 0]
    /\ stop_at = [i \in Clients |-> "never"]
    /\ stop_returned = [i \in Clients |-> FALSE]
    /\ cancel_req = [i \in Clients |-> FALSE]

NextBroker ==
    \/ BrokerStart
    \/ BrokerStop
    \/ DirectStop(Driven)
    \/ DirectStopReturns
    \/ \E i \in Clients : TaskRun(i)
    \/ \E i \in Clients : Network(i)
    \/ \E i \in Clients : ReadReturns(i)
    \/ \E i \in Clients : TimerFires(i)
    \/ \E i \in Clients : WsClosed(i)

BrokerSpec == InitBroker /\ [][NextBroker]_vars

\* A started broker and every connector connected and subscribed, with the
\* messages its connection is going to yield.
InitReader ==
    /\ addr_in_use = FALSE
    /\ broker_is_running = TRUE
    /\ socket_bound = TRUE
    /\ socket_closed = FALSE
    /\ sent = <<>>
    /\ published = <<>>
    /\ wire = <<>>
    /\ binds = 1
    /\ stops = 0
    /\ broker_raised = {}
    /\ \E arr \in Arrivals : inbox = [i \in Clients |-> InboxOf(arr, i)]
    /\ received = inbox
    /\ log = [i \in Clients |-> <<>>]
    /\ message = NoMessage
    /\ normalized = NotCalled
    /\ UsersIdle
    /\ mpc = "h_idle"
    /\ mIdx = 1
    /\ tasks = <<>>
    /\ start_raised = FALSE
    /\ is_running = [i \in Clients |-> TRUE]
    /\ ws = [i \in Clients |-> "open"]
    /\ pc = [i \in Clients |-> "reading"]
    /\ wake = [i \in Clients |-> "none"]
    /\ must_cancel = [i \in Clients |-> FALSE]
    /\ ready = <<>>
    /\ sub_sent = [i \in Clients |-> 1]
    /\ stop_at = [i \in Clients |-> "never"]
    /\ stop_returned = [i \in Clients |-> FALSE]
    /\ cancel_req = [i \in Clients |-> FALSE]

NextReader == \E i \in Clients : ReadMessage(i)

ReaderSpec == InitReader /\ [][NextReader]_vars

\* A Delta client that has parsed one message.
InitNormalize ==
    /\ addr_in_use = FALSE
    /\ broker_is_running = TRUE
    /\ socket_bound = TRUE
    /\ socket_closed = FALSE
    /\ sent = <<>>
    /\ published = <<>>
    /\ wire = <<>>
    /\ binds = 1
    /\ stops = 0
    /\ broker_raised = {}
    /\ inbox = [i \in Clients |-> <<>>]
    /\ received = [i \in Clients |-> <<>>]
    /\ log = [i \in Clients |-> <<>>]
    /\ message \in DeltaMessages
    /\ normalized = NotCalled
    /\ UsersIdle
    /\ mpc = "h_idle"
    /\ mIdx = 1
    /\ tasks = <<>>
    /\ start_raised = FALSE
    /\ is_running = [i \in Clients |-> TRUE]
    /\ ws = [i \in Clients |-> "open"]
    /\ pc = [i \in Clients |-> "reading"]
    /\ wake = [i \in Clients |-> "none"]
    /\ must_cancel = [i \in Clients |-> FALSE]
    /\ ready = <<>>
    /\ sub_sent = [i \in Clients |-> 1]
    /\ stop_at = [i \in Clients |-> "never"]
    /\ stop_returned = [i \in Clients |-> FALSE]
    /\ cancel_req = [i \in Clients |-> FALSE]

NormalizeSpec == InitNormalize /\ [][Normalize]_vars

\* Streaming connectors, one message each, normalized to any result.
InitUpdates ==
    /\ addr_in_use = FALSE
    /\ broker_is_running = TRUE
    /\ socket_bound = TRUE
    /\ socket_closed = FALSE
    /\ sent = <<>>
    /\ published = <<>>
    /\ wire = <<>>
    /\ binds = 1
    /\ stops = 0
    /\ broker_raised = {}
    /\ inbox = [i \in Clients |-> <<>>]
    /\ received = [i \in Clients |-> <<>>]
    /\ log = [i \in Clients |-> <<>>]
    /\ message = NoMessage
    /\ normalized \in Results
    /\ UsersIdle
    /\ mpc = "h_idle"
    /\ mIdx = 1
    /\ tasks = <<>>
    /\ start_raised = FALSE
    /\ is_running = [i \in Clients |-> TRUE]
    /\ ws = [i \in Clients |-> "open"]
    /\ pc = [i \in Clients |-> "reading"]
    /\ wake = [i \in Clients |-> "none"]
    /\ must_cancel = [i \in Clients |-> FALSE]
    /\ ready = <<>>
    /\ sub_sent = [i \in Clients |-> 1]
    /\ stop_at = [i \in Clients |-> "never"]
    /\ stop_returned = [i \in Clients |-> FALSE]
    /\ cancel_req = [i \in Clients |-> FALSE]

NextUpdates == \E i \in Clients : PublishUpdates(i)

UpdatesSpec == InitUpdates /\ [][NextUpdates]_vars

\* The event loop runs every ready coroutine, timers fire, and a closing
\* handshake ends (close_timeout); the exchange owes nothing.
Fairness ==
    /\ \A i \in Clients : WF_vars(TaskRun(i))
    /\ \A i \in Clients : WF_vars(TaskCancelled(i))
    /\ \A i \in Clients : WF_vars(ReadReturns(i))
    /\ \A i \in Clients : WF_vars(TimerFires(i))
    /\ \A i \in Clients : WF_vars(WsClosed(i))

FairSpec == Spec /\ WF_vars(Manager) /\ Fairness

FairClientSpec == ClientSpec /\ WF_vars(DirectStopReturns) /\ Fairness

\* A step on a steady network: the exchange sends trade messages only, the
\* subscription request is sent, and a started broker transmits every
\* publish.  Connections are still refused, lost and closed.
SteadyNetwork ==
    /\ \A i \in Clients : wake'[i] \in Frames => wake'[i] = "all_trades"
    /\ \A i \in Clients :
           (pc[i] = "connecting" /\ wake[i] = "conn_ok" /\ wake'[i] = "none"
                /\ ~must_cancel[i]) => pc'[i] = "reading"
    /\ broker_is_running => Len(sent') = Len(published')

NextSteady == Next /\ SteadyNetwork

\* The application on a steady network, and the same with a fair event
\* loop.
SteadySpec == Init /\ [][NextSteady]_vars

FairSteadySpec == SteadySpec /\ WF_vars(Manager) /\ Fairness


(***************************************************************************)
(* Properties of the lifecycle (StreamerManager.start and stop).           *)
(***************************************************************************)

\* start() is over: it returned or raised.
StartOver == mpc \notin {"init", "start_bind", "start_spawn"}

\* stop() has been called on client i.
StopCalled(i) == stop_at[i] # "never"

\* C1: when the broker's bind fails during start(), start() raises to its
\* caller, the task list stays empty and no connect() task exists, so no
\* connect loop ever runs.
C1_BindFailureAbortsStart ==
    (addr_in_use /\ mpc # "init" /\ mpc # "start_bind") =>
        /\ start_raised
        /\ tasks = <<>>
        /\ \A i \in Clients : pc[i] = "none" /\ ~is_running[i]

\* The bind failed, start() raised and the whole lifecycle has run.
C1_Witness == addr_in_use /\ start_raised /\ mpc = "stopped"

\* C2: the broker is bound before any connector task is created, and after
\* a successful start there is exactly one task per registered connector.
C2_BindThenOneTaskEach ==
    /\ (tasks # <<>> \/ \E i \in Clients : pc[i] # "none") =>
           socket_bound
    /\ (StartOver /\ ~start_raised) =>
           /\ Len(tasks) = NumClients
           /\ \A i \in Clients :
                 /\ Cardinality({k \in 1..Len(tasks) : tasks[k] = i}) = 1
                 /\ pc[i] # "none"

\* start() returned with every task created and none of them run yet.
C2_Witness ==
    /\ mpc = "started"
    /\ Len(tasks) = NumClients
    /\ \A i \in Clients : pc[i] = "unstarted"

\* C3: stop() signals every connector, then cancels every retained task,
\* then stops the broker: no task is cancelled before stop() was called on
\* every connector, and the broker is not stopped before every task was
\* cancelled.
C3_StopOrder ==
    /\ (\E i \in Clients : cancel_req[i]) =>
           \A j \in Clients : StopCalled(j) /\ ~is_running[j]
    /\ socket_closed =>
           /\ \A j \in Clients : StopCalled(j)
           /\ \A k \in 1..Len(tasks) : cancel_req[tasks[k]]

\* The broker was stopped at the end of a stop() that had tasks to cancel.
C3_Witness ==
    /\ socket_closed
    /\ Len(tasks) = NumClients
    /\ \A i \in Clients : cancel_req[i]


\* C4: when stop() closes the broker every connector task has already
\* terminated.
C4_TasksEndedAtBrokerClose ==
    socket_closed => \A i \in Clients : pc[i] \in Ended \cup {"none"}

(***************************************************************************)
(* Properties of the connect loop (BaseExchangeClient.connect and stop).   *)
(***************************************************************************)

\* C5: no failure inside a connector reaches the manager: no connect() task
\* ends with an exception, and start() raises only when the bind failed.
C5_FailuresContained ==
    /\ \A i \in Clients : pc[i] # "failed"
    /\ start_raised => addr_in_use

\* One connector waits out the reconnect delay after an error while another
\* is leaving its connection with a JSON error in flight.
C5_Witness ==
    \E i, j \in Clients : pc[i] = "sleeping" /\ pc[j] = "closing_json"

\* C8: a connect loop ends only through an explicit stop: it returns only
\* after stop() on its connector cleared the flag, it is cancelled only after
\* cancel() on its task, and it never ends otherwise.
C8_OnlyStopEndsLoop ==
    \A i \in Clients :
        /\ pc[i] = "done" => StopCalled(i) /\ ~is_running[i]
        /\ pc[i] = "cancelled" => cancel_req[i]
        /\ pc[i] # "failed"

\* One loop returned after stop(), another was ended by the cancellation.
C8_Witness ==
    \E i, j \in Clients : pc[i] = "done" /\ pc[j] = "cancelled"

\* The topics connector i publishes under.
TopicsOf(i) == {Topic(suffix, i) : suffix \in {"trades", "ohlcv", "ticker"}}

\* C10: on every connection exactly one subscription request is sent, and
\* it is sent before a message of that connection is read or published.
C10_SubscribeOncePerConnection ==
    \A i \in Clients :
        /\ sub_sent[i] <= 1
        /\ (pc[i] = "reading" \/ wake[i] \in Frames) => sub_sent[i] = 1
        /\ (\E k \in 1..Len(sent) : sent[k] \in TopicsOf(i)) =>
               sub_sent[i] = 1

\* A trade read on a subscribed connection has just been published.
C10_Witness ==
    \E i \in Clients :
        /\ sent = <<Topic("trades", i)>>
        /\ pc[i] = "reading" /\ sub_sent[i] = 1


\* The task of client i has been woken with a failed connect or read.
Failed(i) == wake[i] \in {"conn_err", "read_err"}

\* C6: a connect attempt or a read that fails while the flag is true is
\* followed by the reconnect delay and then by a new connection attempt: the
\* task does not end, it leaves the delay only when the timer fired and only
\* for a new attempt, and as long as stop() is not called it gets there.
C6_RetryAfterFailure ==
    /\ [][\A i \in Clients :
             /\ (Failed(i) /\ wake'[i] = "none" /\ is_running[i]) =>
                    pc'[i] = "sleeping"
             /\ (pc[i] = "sleeping" /\ pc'[i] # "sleeping" /\ is_running[i]) =>
                    wake[i] = "timer" /\ pc'[i] = "connecting"]_vars
    /\ \A i \in Clients :
          (Failed(i) /\ is_running[i]) ~> (pc[i] = "sleeping" \/ ~is_running[i])
    /\ \A i \in Clients :
          (pc[i] = "sleeping" /\ is_running[i]) ~>
              ((pc[i] = "connecting" /\ wake[i] = "none") \/ ~is_running[i])

\* The delay after a failure is over and the connector is still running.
C6_Witness ==
    /\ pc[Driven] = "sleeping" /\ wake[Driven] = "timer"
    /\ is_running[Driven] /\ ~StopCalled(Driven)

\* C7: stop() on a connector that is reading closes the connection, the
\* read returns and the loop exits, with no reconnect delay and no further
\* connection attempt.
C7_StopWhileStreaming ==
    \A i \in Clients :
        /\ [](stop_at[i] = "reading" =>
                 /\ pc[i] \in {"reading", "closing_normal", "closing_closed",
                               "closing_json", "closing_type", "done"}
                 /\ ws[i] \in {"closing", "closed"})
        /\ (stop_at[i] = "reading") ~> (pc[i] = "done")

\* stop() was called while the connector was reading, has returned, and the
\* loop has exited.
C7_Witness ==
    /\ stop_at[Driven] = "reading"
    /\ pc[Driven] = "done"
    /\ stop_returned[Driven]

\* C9: after stop() has been called on a connector, the connector begins no
\* new connection attempt.
C9_NoAttemptAfterStop ==
    [][\A i \in Clients :
          StopCalled(i) => ~(pc[i] # "connecting" /\ pc'[i] = "connecting")]_vars

(***************************************************************************)
(* Properties of the broker (ZMQBroker.start, publish and stop).           *)
(***************************************************************************)

\* The last step of connector i called broker.publish.
Publishes(i) == \E k \in 1..Len(published) : published[k] \in TopicsOf(i)

\* This step is the run of connect() of client i that takes one message.
Consumes(i) ==
    /\ pc[i] = "reading" /\ wake[i] \in Frames
    /\ ~must_cancel[i] /\ wake'[i] = "none"

\* C11: publish() on a broker that is not started transmits nothing and
\* raises nothing (the connector reads on), and no frame is transmitted
\* unless the broker was bound before.
C11_NothingBeforeBind ==
    /\ (sent # <<>> \/ wire # <<>>) => (binds >= 1 /\ socket_bound)
    /\ (published # <<>> /\ ~broker_is_running) =>
           /\ sent = <<>> /\ wire = <<>>
           /\ \A i \in Clients : Publishes(i) => pc[i] = "reading"

\* A connector has called publish() on a broker that nobody ever started.
C11_Witness ==
    /\ published # <<>> /\ binds = 0 /\ stops = 0
    /\ broker_raised = {} /\ pc[Driven] = "reading"

\* C12: publish() never raises to the connector: after a step that called
\* publish() on a started broker, the send having failed or not, the broker
\* is still started and the connector is still reading on the same
\* connection.
C12_SendFailureSwallowed ==
    [][\A i \in Clients :
          (broker_is_running /\ Consumes(i) /\ published' # <<>>) =>
              /\ broker_is_running' /\ ~socket_closed'
              /\ pc'[i] = "reading" /\ ws'[i] = ws[i]]_vars

\* A publish on the started broker was dropped by a failed send and the
\* connector went on reading.
C12_Witness ==
    \E i \in Clients :
        /\ Publishes(i) /\ broker_is_running /\ sent = <<>>
        /\ pc[i] = "reading" /\ ws[i] = "open"

\* C13: broker.stop() is idempotent: a second call leaves the broker in the
\* stopped state of the first, and a publish() after stop() transmits
\* nothing and raises nothing.
C13_StopIdempotent ==
    /\ [](stops >= 1 => (~broker_is_running /\ socket_closed))
    /\ [][(stops >= 1 /\ stops' = stops + 1) =>
              UNCHANGED <<brokerVars, binds, broker_raised>>]_vars
    /\ [](stops >= 1 => (sent = <<>> /\ wire = <<>>))
    /\ [](\A i \in Clients :
              (stops >= 1 /\ Publishes(i)) => pc[i] = "reading")

\* A connector has called publish() after the second stop() of a broker that
\* had been started.
C13_Witness ==
    /\ stops = 2 /\ binds >= 1
    /\ published # <<>> /\ pc[Driven] = "reading"

\* C14: the broker's address is bound at most once: start() on a started
\* broker is rejected or does nothing, and does not bind again.
C14_BoundAtMostOnce == binds <= 1

Prefix(i) == SubSeq(received[i], 1, Len(received[i]) - Len(inbox[i]))

\* The publish calls that reading msgs in this order makes.
RECURSIVE ExpectedLog(_, _)
ExpectedLog(i, msgs) ==
    IF msgs = <<>> THEN <<>>
    ELSE (IF Raises(Head(msgs)) THEN <<>> ELSE CallsFor(i, Head(msgs)))
         \o ExpectedLog(i, Tail(msgs))

\* C15: the publish calls of a connector are in the order in which the
\* messages were received on its connection, the updates of one message
\* before anything of the next.
C15_PublishInOrderReceived ==
    \A i \in Clients : log[i] = ExpectedLog(i, Prefix(i))

\* A connector has published a trade and then a candle, received in that
\* order.
C15_Witness ==
    \E i \in Clients :
        /\ Len(log[i]) = 2 /\ inbox[i] = <<>>
        /\ log[i][1].kind = "trades" /\ log[i][2].kind = "ohlcv"
        /\ received[i][1].frame = "all_trades"

\* The frame is JSON and not of a type normalize_message knows.
UnrecognizedFrame(frame) ==
    frame \notin {"all_trades", "all_trades_no_price", "candlestick_1m",
                  "v2/ticker", "not_json"}

\* The message makes the loop publish.
Emits(m) == ~Raises(m) /\ ~UnrecognizedFrame(m.frame)

\* C17: a message of an unrecognized shape leads to no publish call and to
\* no error path: the step that takes it publishes nothing and leaves the
\* connector reading on the same, untouched connection.
C17_UnrecognizedDropped ==
    [][\A i \in Clients :
          (Consumes(i) /\ UnrecognizedFrame(wake[i])) =>
              /\ published' = <<>>
              /\ pc'[i] = "reading" /\ ws'[i] = ws[i]]_vars

\* C18: every topic passed to broker.publish is "{kind}.{exchange}" with
\* kind one of trades, ohlcv, ticker and exchange the exchange name of the
\* connector that publishes.
C18_TopicGrammar ==
    \A i \in Clients :
        /\ \A k \in 1..Len(log[i]) :
              \E kind \in Kinds :
                  log[i][k].topic = kind \o "." \o exchange_name(i)
        /\ \A k \in 1..Len(published) :
              \E kind \in Kinds, j \in Clients :
                  published[k] = kind \o "." \o exchange_name(j)

\* A connector has published a ticker and a trade.
C18_Witness ==
    \E i \in Clients :
        /\ Len(log[i]) = 2
        /\ log[i][1].kind = "ticker" /\ log[i][2].kind = "trades"
        /\ published = <<log[i][2].topic>>

\* C19: two connectors with different exchange names publish the same kind
\* of message under different topics.
C19_DistinctTopics ==
    \A i, j \in Clients :
        exchange_name(i) # exchange_name(j) =>
            \A k \in 1..Len(log[i]), l \in 1..Len(log[j]) :
                log[i][k].kind = log[j][l].kind =>
                    log[i][k].topic # log[j][l].topic

\* Two connectors have each published a trade.
C19_Witness ==
    \E i, j \in Clients :
        /\ exchange_name(i) # exchange_name(j)
        /\ Len(log[i]) = 1 /\ Len(log[j]) = 1
        /\ log[i][1].kind = "trades" /\ log[j][1].kind = "trades"

\* C20: the side of a normalized trade is "sell" exactly when the
\* message's buyer_role is "maker" and "buy" otherwise.
C20_TradeSide ==
    \A i \in Clients :
        LET emitted == SelectSeq(Prefix(i), Emits)
        IN \A k \in 1..Len(log[i]) :
              (k <= Len(emitted) /\ emitted[k].frame = "all_trades") =>
                  /\ log[i][k].kind = "trades"
                  /\ log[i][k].side \in {"buy", "sell"}
                  /\ log[i][k].side = "sell" <=>
                         emitted[k].buyer_role = "maker"
                  /\ log[i][k].side = "buy" <=>
                         emitted[k].buyer_role # "maker"

\* A trade bought by a maker and a trade without buyer_role have been
\* normalized by one connector.
C20_Witness ==
    \E i \in Clients :
        /\ Len(log[i]) = 2
        /\ Prefix(i)[1] = [frame |-> "all_trades", buyer_role |-> "maker"]
        /\ Prefix(i)[2] = [frame |-> "all_trades", buyer_role |-> "absent"]
        /\ log[i][1].side = "sell" /\ log[i][2].side = "buy"

\* The message is of one of the three types normalize_message knows and
\* carries the numeric fields of its type.
RecognizedMessage(m) ==
    m.frame \in {"all_trades", "candlestick_1m", "v2/ticker"}

\* The kind a recognized frame is published as.
KindOf(frame) ==
    CASE frame = "candlestick_1m" -> "ohlcv"
      [] frame = "v2/ticker" -> "ticker"
      [] OTHER -> "trades"

C22_NonNegative ==
    normalized.status = "value" =>
        \A k \in DOMAIN normalized.data \cap {"price", "amount", "volume"} :
            normalized.data[k] \in {"zero", "pos"}

\* The optional fields of a ticker and the keys they are returned under.
TickerKeys ==
    {<<"best_bid", "bid">>, <<"best_ask", "ask">>, <<"last_price", "last">>,
     <<"mark_price", "mark_price">>, <<"volume_24h", "volume_24h">>}

\* C23: a v2/ticker message in which optional fields are absent (and the
\* others are numbers) is normalized without error, every absent field
\* giving 0 and every present one its own value.
C23_TickerDefaults ==
    (/\ message.type = "v2/ticker" /\ normalized # NotCalled
     /\ \A key \in DOMAIN message.num : message.num[key] # "null") =>
        /\ normalized.status = "value"
        /\ normalized.suffix = "ticker"
        /\ \A pair \in TickerKeys :
              normalized.data[pair[2]] =
                  IF message.num[pair[1]] = "absent" THEN "zero"
                  ELSE message.num[pair[1]]

\* A ticker carrying none of the five fields has been normalized.
C23_Witness ==
    /\ message.type = "v2/ticker"
    /\ \A key \in DOMAIN message.num : message.num[key] = "absent"
    /\ normalized.status = "value"
    /\ \A key \in DOMAIN normalized.data : normalized.data[key] = "zero"

\* The state of connector i and of its task.
ConnState(i) ==
    <<is_running[i], ws[i], pc[i], wake[i], must_cancel[i], sub_sent[i]>>

\* How often coroutine c is in the ready queue q.
Queued(q, c) == Cardinality({k \in 1..Len(q) : q[k] = c})

\* C24: connectors are isolated from each other: a step changes the state
\* of at most one connector (flag, connection, position, pending wake-up),
\* leaves every other connector's place in the ready queue as it is, and a
\* step of a connector does not touch the broker.
C24_ConnectorsIsolated ==
    [][/\ \A i, j \in Clients :
             (i # j /\ ConnState(i)' # ConnState(i)) =>
                 /\ ConnState(j)' = ConnState(j)
                 /\ Queued(ready', j) = Queued(ready, j)
       /\ (\E i \in Clients : ConnState(i)' # ConnState(i)) =>
             UNCHANGED brokerVars]_vars

\* One connector waits out its reconnect delay after a failure while
\* another has just read a message and transmitted it.
C24_Witness ==
    \E i, j \in Clients :
        /\ i # j /\ pc[i] = "sleeping"
        /\ Publishes(j) /\ sent # <<>> /\ pc[j] = "reading"

\* The rows of a table, and their primary keys.
Rows(tbl) == {tbl[k] : k \in 1..Len(tbl)}

IdsOf(tbl) == {tbl[k].id : k \in 1..Len(tbl)}

\* The keys of the user's rows that have not expired.
ActiveIds(tbl, user_id) ==
    {r.id : r \in {q \in Rows(tbl) : q.user_id = user_id /\ ~q.expired}}

\* C25: enforce_session_limit(user, max) deletes nothing when the user has
\* fewer than max active sessions; with n >= max active sessions it deletes
\* exactly n - (max - 1) of them, the oldest, and leaves the max - 1 newest.
C25_EnforceSessionLimit ==
    [][request'.op = "enforce_session_limit" =>
          LET active == ActiveIds(sessions, request'.user_id)
              n == Cardinality(active)
              max == request'.max
              gone == IdsOf(sessions) \ IdsOf(sessions')
          IN /\ Rows(sessions') \subseteq Rows(sessions)
             /\ n < max => sessions' = sessions
             /\ n >= max =>
                   /\ gone \subseteq active
                   /\ Cardinality(gone) = n - (max - 1)
                   /\ \A g \in gone, kept \in active \ gone : g < kept
                   /\ Cardinality(ActiveIds(sessions', request'.user_id))
                          = max - 1]_vars

\* enforce_session_limit(user, 2) has deleted the three oldest of four
\* sessions and left the newest.
C25_Witness ==
    /\ request.op = "enforce_session_limit" /\ request.max = 2
    /\ created = 4
    /\ IdsOf(sessions) = {4}
    /\ ActiveIds(sessions, request.user_id) = {4}

\* C26: SessionService.delete_session deletes the session only when the
\* user exists, the session exists, it belongs to that user and its refresh
\* token is not the caller's current one; in every other case it raises
\* and no session is deleted.
C26_DeleteSession ==
    [][request'.op = "delete_session" =>
          LET row == {r \in Rows(sessions) : r.id = request'.session_id}
              allowed ==
                  /\ users[request'.user_id].present
                  /\ row # {}
                  /\ \A r \in row : /\ r.user_id = request'.user_id
                                     /\ r.refresh_token # request'.token
          IN IF allowed
             THEN /\ request'.outcome = "200"
                  /\ Rows(sessions') = Rows(sessions) \ row
             ELSE /\ request'.outcome \in {"ResourceNotFoundException",
                                           "InvalidOperationException"}
                  /\ sessions' = sessions]_vars

\* A user with two sessions has deleted the one that is not the current.
C26_Witness ==
    /\ request.op = "delete_session" /\ request.outcome = "200"
    /\ request.session_id \notin IdsOf(sessions)
    /\ request.token \in ActiveIds(sessions, request.user_id)

\* The rows of users an identifier is the email or the username of.
Matches(identifier) ==
    {u \in UserIds : /\ users[u].present
                     /\ identifier \in {users[u].email, users[u].username}}

\* The session of request req is the only new row of the sessions table,
\* and no session of another user has changed.
SessionCreated(req) ==
    /\ IdsOf(sessions') \ IdsOf(sessions) = {req.token}
    /\ \E r \in Rows(sessions') :
           r.id = req.token /\ r.user_id = req.user_id /\ ~r.expired
    /\ \A r \in Rows(sessions) : r.user_id # req.user_id =>
           r \in Rows(sessions')

\* C27: login_user creates a session and returns tokens only when the
\* identifier matches a user, that user is verified and the password
\* matches; an unknown identifier raises InvalidCredentialsException, an
\* unverified user UnauthorizedAccessException, a wrong password of a
\* verified user InvalidCredentialsException, and a failing call creates
\* and deletes no session.
C27_Login ==
    [][request'.op = "login_user" =>
          LET found == Matches(request'.identifier)
              right(u) == users[u].password = "$2b$12$" \o request'.secret
              good == {u \in found : users[u].is_verified /\ right(u)}
          IN /\ users' = users
             /\ request'.outcome = "200" =>
                   request'.user_id \in good /\ SessionCreated(request')
             /\ request'.outcome # "200" => sessions' = sessions
             /\ found = {} =>
                   request'.outcome = "InvalidCredentialsException"
             /\ (found # {} /\ \A u \in found : ~users[u].is_verified) =>
                   request'.outcome = "UnauthorizedAccessException"
             /\ (found # {} /\ \A u \in found :
                                   users[u].is_verified /\ ~right(u)) =>
                   request'.outcome = "InvalidCredentialsException"
             /\ (found # {} /\ found = good) =>
                   request'.outcome = "200"]_vars

\* A verified user has logged in by username and holds the new session.
C27_Witness ==
    /\ request.op = "login_user" /\ request.outcome = "200"
    /\ request.identifier = "ann"
    /\ \E r \in Rows(sessions) :
           r.id = request.token /\ r.user_id = request.user_id

Present(tbl) == {u \in UserIds : tbl[u].present}

\* C29: register_user raises ResourceAlreadyExistsException and changes
\* nothing when a verified user has the email or the username; when an
\* unverified user has the email it updates that user in place and returns
\* 200 without creating a user; otherwise it creates exactly one new
\* unverified user and returns 201.
C29_Register ==
    [][request'.op = "register_user" =>
          LET with_email == {u \in Present(users) :
                                users[u].email = request'.identifier}
              with_name == {u \in Present(users) :
                               users[u].username = request'.username}
          IN IF \E u \in with_email \cup with_name : users[u].is_verified
             THEN /\ request'.outcome = "ResourceAlreadyExistsException"
                  /\ users' = users
             ELSE IF with_email # {}
             THEN /\ request'.outcome = "200"
                  /\ Present(users') = Present(users)
                  /\ \A u \in with_email :
                        /\ users'[u].username = request'.username
                        /\ ~users'[u].is_verified
             ELSE /\ request'.outcome = "201"
                  /\ \E u \in UserIds \ Present(users) :
                        /\ Present(users') = Present(users) \cup {u}
                        /\ users'[u].email = request'.identifier
                        /\ users'[u].username = request'.username
                        /\ ~users'[u].is_verified]_vars

Sensitive(row) ==
    <<row.password, row.verification_code, row.expired, row.is_verified>>

\* C31: update_user_profile never changes id, password, verification_code,
\* verification_code_expiry or is_verified, and never changes a field given
\* as None; when no updatable field remains it performs no update and
\* returns the current user.
C31_UpdateProfile ==
    [][request'.op = "update_user_profile" =>
          LET u == request'.user_id
              d == request'.data
          IN /\ Present(users') = Present(users)
             /\ \A v \in UserIds \ {u} : users'[v] = users[v]
             /\ Sensitive(users'[u]) = Sensitive(users[u])
             /\ \A f \in ProfileFields :
                   d[f] \in {"None", "missing"} => users'[u][f] = users[u][f]
             /\ (users[u].present
                   /\ \A f \in ProfileFields : d[f] \in {"None", "missing"}) =>
                   /\ request'.outcome = "200"
                   /\ ~request'.updated
                   /\ users' = users]_vars

\* A call that gave a new username, None for the email and values for the
\* restricted fields has changed the username.
C31_Witness ==
    /\ request.op = "update_user_profile" /\ request.outcome = "200"
    /\ request.updated
    /\ request.data["email"] = "None"
    /\ request.data["password"] = "plain"
    /\ request.data["is_verified"] = "False"
    /\ request.data["id"] = "other"
    /\ users[request.user_id].username = request.data["username"]
    /\ users[request.user_id].is_verified

\* C32: for each inbound message the connector makes exactly one publish
\* call per normalized (topic_suffix, payload) pair and no other: a bare
\* dict once under "trades", a tuple once under its own suffix, a list once
\* per element in list order, an empty or None result none.
C32_OnePublishPerPair ==
    \A i \in Clients :
        received[i] # <<>> =>
            LET calls == log[i]
                name == exchange_name(i)
            IN CASE normalized.shape = "None" \/ normalized.items = <<>> ->
                        calls = <<>>
                 [] normalized.shape = "dict" /\ normalized.items # <<>> ->
                        Len(calls) = 1
                            /\ calls[1].topic = "trades." \o name
                 [] normalized.shape = "tuple" /\ normalized.items # <<>> ->
                        Len(calls) = 1
                            /\ calls[1].topic
                                   = normalized.items[1] \o "." \o name
                 [] OTHER ->
                        /\ Len(calls) = Len(normalized.items)
                        /\ \A k \in 1..Len(calls) :
                              calls[k].topic
                                  = normalized.items[k] \o "." \o name

\* A list of three pairs has been published, pair by pair, in its order.
C32_Witness ==
    /\ normalized.shape = "list"
    /\ normalized.items = <<"ticker", "trades", "ohlcv">>
    /\ received[Driven] # <<>>
    /\ Len(log[Driven]) = 3
    /\ log[Driven][1].kind = "ticker" /\ log[Driven][3].kind = "ohlcv"

\* StreamerManager.stop() has been called: it is running or has returned.
StopStarted ==
    mpc \in {"stop_clients", "stop_wait", "stop_woken", "stop_cancel",
             "stop_broker", "stopped"}

C34_StopAloneEndsLoop ==
    \A i \in Clients :
        /\ [](stop_returned[i] /\ ~cancel_req[i] => ~Publishes(i))
        /\ (stop_returned[i] /\ ~cancel_req[i]) ~> (pc[i] = "done")

\* The frame cannot be parsed, or parses to a message whose normalization
\* raises.
BadFrame(frame) ==
    json_loads_raises(frame) \/ normalize_message(frame).shape = "raise"

\* The positions of a connector whose connection is being closed because a
\* frame could not be handled.
ClosingBad == {"closing_json", "closing_type"}

\* C35: a frame that fails JSON parsing or whose normalization raises is
\* handled as a connection error: nothing is published for it and the
\* connection is closed; then, while the flag is true, the connector waits
\* the reconnect delay, makes a new connection attempt, and subscribes again
\* on the new connection.
C35_BadFrameIsConnectionError ==
    /\ [][\A i \in Clients :
             /\ (Consumes(i) /\ BadFrame(wake[i])) =>
                    /\ published' = <<>> /\ sent' = <<>>
                    /\ ws'[i] \in {"closing", "closed"}
                    /\ pc'[i] \in ClosingBad \cup
                           {IF is_running[i] THEN "sleeping" ELSE "done"}
             /\ (pc[i] \in ClosingBad /\ pc'[i] # pc[i] /\ ~cancel_req[i]) =>
                    /\ ws[i] = "closed"
                    /\ pc'[i] = IF is_running[i] THEN "sleeping" ELSE "done"
             /\ (pc[i] = "connecting" /\ pc'[i] = "reading") =>
                    sub_sent'[i] = 1]_vars
    /\ \A i \in Clients :
          (pc[i] \in ClosingBad /\ is_running[i]) ~>
              (pc[i] = "sleeping" \/ ~is_running[i])
    /\ \A i \in Clients :
          (pc[i] = "sleeping" /\ is_running[i]) ~>
              ((pc[i] = "connecting" /\ wake[i] = "none") \/ ~is_running[i])

\* A message whose normalization raised has closed the connection of a
\* connector that is still running.
C35_Witness ==
    /\ pc[Driven] = "closing_type" /\ ws[Driven] = "closing"
    /\ is_running[Driven] /\ ~StopCalled(Driven)
    /\ published = <<>>

\* The read loop of connector i has ended without an error and the task has
\* not taken notice yet.
EndedNormally(i) == pc[i] = "reading" /\ wake[i] = "end"

\* C36: when a connection ends without an error while the flag is true, the
\* connector goes to the next connection attempt without the reconnect
\* delay; the delay is entered only from an error: a failed connect, send or
\* read, or a frame that could not be handled.
C36_NoDelayAfterNormalEnd ==
    /\ [][\A i \in Clients :
             /\ (EndedNormally(i) /\ wake'[i] = "none" /\ is_running[i]
                     /\ ~cancel_req[i]) =>
                    pc'[i] = "connecting"
             /\ (pc[i] = "closing_normal" /\ pc'[i] # pc[i]
                     /\ ~cancel_req[i]) =>
                    pc'[i] = IF is_running[i] THEN "connecting" ELSE "done"
             /\ (pc[i] # "sleeping" /\ pc'[i] = "sleeping") =>
                    \/ Failed(i)
                    \/ pc[i] = "connecting" /\ wake[i] = "conn_ok"
                           /\ sub_sent'[i] = 0
                    \/ Consumes(i) /\ BadFrame(wake[i])
                    \/ pc[i] \in Closing \ {"closing_normal"}]_vars
    /\ \A i \in Clients :
          (EndedNormally(i) /\ is_running[i]) ~>
              (pc[i] = "connecting" \/ ~is_running[i])

\* The exchange has ended the connection of a running connector normally
\* after the connector had subscribed on it.
C36_Witness ==
    /\ EndedNormally(Driven) /\ is_running[Driven] /\ ~StopCalled(Driven)
    /\ sub_sent[Driven] = 1 /\ ws[Driven] = "closed"

\* The call just made has created a session.
CreatesSession ==
    /\ request'.op \in {"login_user", "verify_user"}
    /\ request'.outcome = "200"

\* C37: with login_user and verify_user run one after another a user never
\* has more than 4 active sessions; a session creation keeps the 3 newest
\* active sessions of the user (all of them when there are at most 3),
\* removes the older active ones and adds the new session.
C37_AtMostFourActive ==
    /\ [](\A u \in UserIds :
             Cardinality(ActiveOf(sessions, u)) <= SessionLimit)
    /\ [][CreatesSession =>
             LET u == request'.user_id
                 before == ActiveIds(sessions, u)
                 kept == {id \in before :
                             Cardinality({j \in before : j > id})
                                 < SessionLimit - 1}
             IN /\ Cardinality(kept) <= SessionLimit - 1
                /\ ActiveIds(sessions', u) = kept \cup {request'.token}
                /\ request'.token \notin before
                /\ \A v \in UserIds \ {u} :
                       ActiveIds(sessions', v) = ActiveIds(sessions, v)]_vars

\* A login has just created the fifth session of a user whose four earlier
\* ones were all active: the oldest is gone and four are active.
C37_Witness ==
    /\ request.op = "login_user" /\ request.outcome = "200"
    /\ created = 5
    /\ ActiveIds(sessions, request.user_id) = {2, 3, 4, 5}
    /\ SessionById(sessions, 1) = {}

\* C38: the cap of 4 active sessions per user also holds when session
\* creations of the same user interleave.
C38_CapUnderInterleaving ==
    \A u \in UserIds : Cardinality(ActiveOf(sessions, u)) <= SessionLimit

\* The call just made is refresh_token.
Refreshed == request'.op = "refresh_token"

\* C39: refresh_token returns 200 with the same refresh token, and leaves
\* the sessions as they are, exactly when the token verifies and a session
\* with that token exists and has not expired; when the token verifies and
\* its session has expired, exactly that session is deleted and the call is
\* rejected; a token that does not verify or has no session is rejected and
\* no session changes.  No call changes a user.
C39_RefreshToken ==
    [][Refreshed =>
          LET token == request'.token
              verifies == verify_refresh_token(token, request'.in_time)
              session == {r \in Rows(sessions) : r.refresh_token = token}
          IN /\ users' = users
             /\ IF verifies /\ session # {}
                      /\ \A r \in session : ~r.expired
                THEN /\ request'.outcome = "200"
                     /\ request'.refresh_token = token
                     /\ sessions' = sessions
                ELSE IF verifies /\ session # {}
                THEN /\ request'.outcome = "UnauthorizedAccessException"
                     /\ Rows(sessions') = Rows(sessions) \ session
                     /\ Len(sessions') = Len(sessions) - 1
                ELSE /\ request'.outcome = "UnauthorizedAccessException"
                     /\ sessions' = sessions]_vars

\* A refresh with a token that verifies has found its session expired and
\* deleted it, while another session is still there.
C39_Witness ==
    /\ request.op = "refresh_token"
    /\ request.outcome = "UnauthorizedAccessException"
    /\ request.in_time /\ request.session_id = request.token
    /\ request.token # Forged
    /\ get_session_by_refresh_token(sessions, request.token) = {}
    /\ sessions # <<>>

=============================================================================
